---- MODULE Spec2Model ----
(***************************************************************************)
(* Node runtime of the maelstrom-distributed-systems repository.           *)
(*                                                                         *)
(* Three programs are modelled, selected by the variable `variant`:        *)
(*   "ch2"  src/ch2/echo_server/src/main.rs      (single-threaded echo)    *)
(*   "ch3"  src/ch3/broadcast_server/src/main.rs (worker pool, one-shot    *)
(*          gossip)                                                        *)
(*   "ch4"  src/ch4/g-set/src/main.rs            (worker pool, callback    *)
(*          table, retrying gossip, grow-only set)                         *)
(*                                                                         *)
(* A process reads lines from its stdin, writes envelopes to its stdout.   *)
(* Every step that takes one of the program's guards (or one atomic        *)
(* instruction) is one action; a thread's position is a pc field.          *)
(***************************************************************************)
EXTENDS Integers, Sequences, FiniteSets, TLC

(***************************************************************************)
(* Bounds of the model                                                     *)
(***************************************************************************)
\* request lines (echo, add, read, undecodable) the harness writes after the first
MaxInputs == 3
\* Broadcast lines of the workload with racing requests
MaxBroadcasts == 2
\* reply lines of the workload with duplicate replies
MaxAcks == 2
\* retry rounds one retry thread may start (the code's loop is unbounded)
MaxRounds == 2
\* workers draining the inbound queue (the code starts 4, see num_workers)
NumWorkers == 2
\* number of distinct payload values 1..MaxValue
MaxValue == 1
\* messages the network may lose (SpecLive)
MaxDrops == 1
\* number of distinct elements 1..MaxElement a client adds
MaxElement == 2
\* periodic tasks registered, longest interval, and how far the clock runs
MaxTasks == 2
MaxInterval == 2
MaxTime == 3

(***************************************************************************)
(* Identities                                                              *)
(***************************************************************************)
Procs == {"n1", "n2"}
Clients == {"c1"}
Workers == 1..NumWorkers
Values == 1..MaxValue
Elements == 1..MaxElement
EchoTexts == {"a", "b"}

\* the neighbor lists a Topology message carries: a node with two neighbors,
\* and a pair of nodes
StarTopology == [n1 |-> <<"n2", "n3">>, n2 |-> <<"n1">>, n3 |-> <<"n1">>]
PairTopology == [n1 |-> <<"n2">>, n2 |-> <<"n1">>]

\* What the harness does to one process: the map its Topology line carries and
\* how many lines of each kind it writes.
Workload(map, topologies, broadcasts, replies, requests) ==
    [map |-> map, topology |-> topologies, broadcast |-> broadcasts,
     reply |-> replies, request |-> requests]

\* one broadcast to a node with two neighbors, whose replies may be duplicated
WideLoad == Workload(StarTopology, 1, 1, MaxAcks, 0)
\* several broadcasts of one value racing at a node with one neighbor
RacingLoad == Workload(PairTopology, 1, MaxBroadcasts, 1, 0)
\* requests that need no topology
RequestLoad == Workload(PairTopology, 0, 0, 0, MaxInputs)
\* one broadcast at a node whose topology is sent twice
TopoLoad == Workload(StarTopology, 2, 1, 1, 0)
\* one broadcast at a node with one neighbor, a duplicated reply, one stray line
DropLoad == Workload(PairTopology, 1, 1, MaxAcks, 1)
\* adds and reads, and one broadcast, at a node that was given no topology
SetLoad == Workload(PairTopology, 0, 1, 0, MaxInputs)

(***************************************************************************)
(* Wire format: one Envelope {src, dest, body} per line                    *)
(***************************************************************************)
Message(src, dest, body) == [src |-> src, dest |-> dest, body |-> body]

Init_(id, nid) == [type |-> "init", msg_id |-> id, node_id |-> nid, node_ids |-> <<nid>>]
InitOk(irt) == [type |-> "init_ok", in_reply_to |-> irt]
\* ch2's InitOk and EchoOk carry a msg_id of their own
InitOk2(id, irt) == [type |-> "init_ok", msg_id |-> id, in_reply_to |-> irt]
Echo(id, e) == [type |-> "echo", msg_id |-> id, echo |-> e]
EchoOk(e, irt) == [type |-> "echo_ok", echo |-> e, in_reply_to |-> irt]
EchoOk2(id, e, irt) == [type |-> "echo_ok", msg_id |-> id, echo |-> e, in_reply_to |-> irt]
Topology(id, t) == [type |-> "topology", msg_id |-> id, topology |-> t]
TopologyOk(irt) == [type |-> "topology_ok", in_reply_to |-> irt]
Broadcast(id, m) == [type |-> "broadcast", msg_id |-> id, message |-> m]
BroadcastOk(irt) == [type |-> "broadcast_ok", in_reply_to |-> irt]
Read(id) == [type |-> "read", msg_id |-> id]
ReadOk(irt, ms) == [type |-> "read_ok", in_reply_to |-> irt, messages |-> ms]
Add(id, x) == [type |-> "add", msg_id |-> id, element |-> x]
AddOk(irt) == [type |-> "add_ok", in_reply_to |-> irt]

\* a line that is no JSON envelope at all
MalformedLine == [malformed |-> TRUE]
\* bytes that are no UTF-8 text: read_line itself returns an error
UnreadableLine == [unreadable |-> TRUE]
\* the end of the stream: read_line returns no bytes, now and on every later call
EndOfStream == [eof |-> TRUE]
\* a JSON envelope whose type tag no variant knows
UnknownTag(id) == [type |-> "gossip", msg_id |-> id]

\* the tags of each program's MessageBody enum
Tags(v) ==
    CASE v = "ch2" -> {"init", "init_ok", "echo", "echo_ok"}
      [] v = "ch3" -> {"init", "init_ok", "echo", "echo_ok", "topology", "topology_ok",
                       "broadcast", "broadcast_ok", "read", "read_ok"}
      [] OTHER     -> {"init", "init_ok", "echo", "echo_ok", "topology", "topology_ok",
                       "broadcast", "broadcast_ok", "read", "read_ok", "add", "add_ok"}

\* serde_json::from_str::<Message>: <<envelope>> on success, <<>> on a decode error
message_from_stdin(v, line) ==
    IF "body" \in DOMAIN line /\ line.body.type \in Tags(v) THEN <<line>> ELSE <<>>

ReplyTags == {"init_ok", "echo_ok", "topology_ok", "broadcast_ok", "read_ok", "add_ok"}

\* MessageBody::is_reply: <<in_reply_to>> for a reply variant, <<>> otherwise
is_reply(body) == IF body.type \in ReplyTags THEN <<body.in_reply_to>> ELSE <<>>

\* Option::None for message-valued locals
NoMessage == [none |-> TRUE]

(***************************************************************************)
(* State                                                                   *)
(***************************************************************************)
VARIABLES
    variant,          \* which program runs: "ch2", "ch3" or "ch4"
    phase,            \* per process: "off", "start", "running", "failed", "exited";
                      \* "closing": the reader is gone and the workers drain the queue
    node_id,          \* Node.node_id: <<id>> once the Node exists, <<>> before
    stdin,            \* lines waiting on the process's standard input
    workload,         \* what the harness does in this run
    nfed,             \* number of lines the harness has written so far, by kind
    inbox,            \* the unbounded channel between the reader and the workers
    out,              \* what the process has written to its standard output
    messages,         \* Node.messages
    topology,         \* Node.topology: <<map>> or <<>> (None)
    next_message_id,  \* Node.next_message_id
    callbacks,        \* Node.callbacks: MsgId -> continuation
    workers,          \* per worker: position and locals
    cycles,           \* the retry threads spawned by handle_broadcast, in spawn order
    fired,            \* history: the continuations invoked, with the reply that did it
    hist,             \* history: the requests a handler began, the insertions made
    netpos,           \* how many lines of a process's output the network has taken
    drops,            \* history: the lines the network has lost, as <<writer, position>>
    locks,            \* the guards of a node: who holds each, what each thread does next
    sched             \* per process: the periodic-task registry and the scheduler driver

vars == <<variant, workload, phase, node_id, stdin, nfed, inbox, out, messages, topology,
          next_message_id, callbacks, workers, cycles, fired, hist, netpos, drops, locks, sched>>

NoCallback == [none |-> TRUE]

(***************************************************************************)
(* The guards (Mutex) of a ch4 node and the threads that take them         *)
(***************************************************************************)
\* struct Node's mutexes but stdin, which only the reader takes, and the
\* unacknowledged set of a retry thread
Guards == {"messages", "topology", "callbacks", "periodic_tasks", "stdout", "stderr",
           "unacked"}

\* two of the workers, one retry thread, the thread of run_event_loop
Units == {"worker1", "worker2", "retry", "driver"}

\* every guard free, every thread between two pieces of work
NoLocks == [held |-> [g \in Guards |-> "free"], prog |-> [u \in Units |-> <<>>]]

\* a worker blocked on the channel
IdleWorker == [pc |-> "idle", msg |-> NoMessage, cb |-> NoCallback, snap |-> {},
               todo |-> <<>>]

\* Node::new, before any process has read a line; `live` are the processes started
\* Node::new: an empty registry; the driver thread does not exist yet
NoSched == [tasks |-> <<>>, last_runs |-> <<>>, pc |-> "off", i |-> 0, clock |-> 0,
            ran |-> {}]

Boot(live, v, load, first) ==
    /\ variant = v
    /\ workload = load
    /\ phase = [p \in Procs |-> IF p \in live THEN "start" ELSE "off"]
    /\ node_id = [p \in Procs |-> <<>>]
    /\ stdin = [p \in Procs |-> IF p \in live THEN <<first[p]>> ELSE <<>>]
    /\ nfed = [p \in Procs |-> [request |-> 0, topology |-> 0, broadcast |-> 0, reply |-> 0]]
    /\ inbox = [p \in Procs |-> <<>>]
    /\ out = [p \in Procs |-> <<>>]
    /\ messages = [p \in Procs |-> {}]
    /\ topology = [p \in Procs |-> <<>>]
    /\ next_message_id = [p \in Procs |-> 0]
    /\ callbacks = [p \in Procs |-> <<>>]
    /\ workers = [p \in Procs |-> [w \in Workers |-> IdleWorker]]
    /\ cycles = [p \in Procs |-> <<>>]
    /\ fired = [p \in Procs |-> <<>>]
    /\ hist = [p \in Procs |-> {}]
    /\ netpos = [p \in Procs |-> 0]
    /\ drops = {}
    /\ locks = NoLocks
    /\ sched = [p \in Procs |-> NoSched]

(***************************************************************************)
(* Node::send and the map operations of the callback table                 *)
(***************************************************************************)
\* One line on stdout. `cause` (the inbound request being served) and `round`
\* (the retry round, 0 outside a retry thread) are history, not wire content.
Written(p, dest, body, cause, round) ==
    [env |-> Message(node_id[p][1], dest, body), cause |-> cause, round |-> round]

send(p, dest, body, cause, round) ==
    Append(out[p], Written(p, dest, body, cause, round))

\* an insert that is lost
insert_nothing(map, k, h) == map

\* HashMap::insert: a second insert under the same key replaces the first
insert(map, k, h) == (k :> h) @@ map

\* HashMap::remove
remove(map, k) == [x \in DOMAIN map \ {k} |-> map[x]]

\* a generator that hands out the first id again and again
first_msg_id(p) == 0

\* AtomicU64::fetch_add(1): the value returned is the one before the increment
get_next_msg_id(p) == next_message_id[p]

\* an assignment in place of the insert
replace_messages(set, m) == {m}

\* an insert that takes out an element it finds
toggle_message(set, m) == IF m \in set THEN set \ {m} ELSE set \cup {m}

\* HashSet::insert
add_message(set, m) == set \cup {m}

\* a membership test that finds nothing
never_contains(set, m) == FALSE

\* HashSet::contains
messages_contain(set, m) == m \in set

(***************************************************************************)
(* main: the handshake                                                     *)
(***************************************************************************)
\* the answer to Init with a made-up in_reply_to
init_reply_unrelated(v, irt) == IF v = "ch2" THEN InitOk2(1, 0) ELSE InitOk(0)

\* the body main answers the Init with
init_reply(v, irt) == IF v = "ch2" THEN InitOk2(1, irt) ELSE InitOk(irt)

\* whether the first line lets the process start
first_is_init(v, line) ==
    /\ message_from_stdin(v, line) # <<>>
    /\ line.body.type = "init"

\* a process that goes on waiting for an Init after a first line that is none
still_waiting == "start"

\* main returns Err("First message received must be init"): the process is gone
rejected == "failed"

\* the first line main read
FirstLine(line) == [ev |-> "first", line |-> line]

\* The first line is read by main itself, before any thread exists.
Handshake(p) ==
    /\ phase[p] = "start"
    /\ stdin[p] # <<>>
    /\ LET line == Head(stdin[p]) IN
       /\ stdin' = [stdin EXCEPT ![p] = Tail(@)]
       /\ IF first_is_init(variant, line)
          THEN /\ phase' = [phase EXCEPT ![p] = "running"]
               /\ node_id' = [node_id EXCEPT ![p] = <<line.body.node_id>>]
               /\ next_message_id' = [next_message_id EXCEPT ![p] =
                                         IF variant = "ch2" THEN 1 ELSE 0]
               /\ out' = [out EXCEPT ![p] = Append(@,
                             [env |-> Message(line.body.node_id, line.src,
                                              init_reply(variant, line.body.msg_id)),
                              cause |-> line, round |-> 0])]
          ELSE /\ phase' = [phase EXCEPT ![p] = rejected]
               /\ UNCHANGED <<node_id, next_message_id, out>>
       /\ sched' = IF first_is_init(variant, line) /\ variant = "ch4"
                   THEN [sched EXCEPT ![p].pc = "sync"]
                   ELSE sched
       /\ hist' = [hist EXCEPT ![p] = @ \cup {FirstLine(line)}]
    /\ UNCHANGED <<variant, workload, nfed, inbox, messages, topology, callbacks, workers,
                   cycles, fired, netpos, drops, locks>>

(***************************************************************************)
(* main: the reader thread (ch3, ch4)                                      *)
(***************************************************************************)
\* history: a Read was taken from stdin when the node had written `seen` lines
Received(m, seen) == [ev |-> "received", msg |-> m, seen |-> seen]

\* Stdin::read_line: FALSE when the bytes of the line are no UTF-8 text
read_line(line) == line # UnreadableLine

\* what is left to read after a line: the end of the stream stays where it is
rest_of(lines) == IF Head(lines) = EndOfStream THEN lines ELSE Tail(lines)

\* A decoded line is enqueued; a line that fails to decode (the empty read at
\* the end of the stream included) is logged and skipped.
Reader(p) ==
    /\ phase[p] = "running"
    /\ variant # "ch2"
    /\ stdin[p] # <<>>
    /\ read_line(Head(stdin[p]))
    /\ LET got == message_from_stdin(variant, Head(stdin[p])) IN
       /\ stdin' = [stdin EXCEPT ![p] = rest_of(@)]
       /\ inbox' = [inbox EXCEPT ![p] = IF got = <<>> THEN @ ELSE Append(@, got[1])]
       /\ hist' = IF got # <<>> /\ got[1].body.type = "read"
                  THEN [hist EXCEPT ![p] = @ \cup {Received(got[1], Len(out[p]))}]
                  ELSE hist
    /\ UNCHANGED <<variant, workload, phase, node_id, nfed, out, messages, topology,
                   next_message_id, callbacks, workers, cycles, fired, netpos, drops, locks, sched>>

\* read_line fails: `.expect("Failed to read message.")` panics in the reader
\* thread, which drops the only Sender of the channel
ReaderPanics(p) ==
    /\ phase[p] = "running"
    /\ variant # "ch2"
    /\ stdin[p] # <<>>
    /\ ~read_line(Head(stdin[p]))
    /\ stdin' = [stdin EXCEPT ![p] = Tail(@)]
    /\ phase' = [phase EXCEPT ![p] = "closing"]
    /\ UNCHANGED <<variant, workload, node_id, nfed, inbox, out, messages, topology,
                   next_message_id, callbacks, workers, cycles, fired, hist, netpos, drops,
                   locks, sched>>

\* the channel is disconnected and empty: every worker's `for message in
\* worker_rx` ends, main's joins return and main returns Ok(())
MainJoins(p) ==
    /\ phase[p] = "closing"
    /\ inbox[p] = <<>>
    /\ \A w \in Workers : workers[p][w].pc = "idle"
    /\ phase' = [phase EXCEPT ![p] = "exited"]
    /\ UNCHANGED <<variant, workload, node_id, stdin, nfed, inbox, out, messages, topology,
                   next_message_id, callbacks, workers, cycles, fired, hist, netpos, drops,
                   locks, sched>>

(***************************************************************************)
(* ch2: the main loop                                                      *)
(***************************************************************************)
\* One iteration: read a line, decode it (`?` ends the process on an error),
\* answer an Echo, skip anything else.
Ch2Main(p) ==
    /\ phase[p] = "running"
    /\ variant = "ch2"
    /\ stdin[p] # <<>>
    /\ LET got == message_from_stdin(variant, Head(stdin[p])) IN
       /\ stdin' = [stdin EXCEPT ![p] = Tail(@)]
       /\ IF got = <<>>
          THEN /\ phase' = [phase EXCEPT ![p] = "exited"]
               /\ UNCHANGED <<next_message_id, out>>
          ELSE /\ UNCHANGED phase
               /\ IF got[1].body.type = "echo"
                  THEN /\ next_message_id' = [next_message_id EXCEPT ![p] = @ + 1]
                       /\ out' = [out EXCEPT ![p] =
                              send(p, got[1].src,
                                   EchoOk2(next_message_id[p] + 1, got[1].body.echo,
                                           got[1].body.msg_id),
                                   got[1], 0)]
                  ELSE UNCHANGED <<next_message_id, out>>
    /\ UNCHANGED <<variant, workload, node_id, nfed, inbox, messages, topology, callbacks,
                   workers, cycles, fired, hist, netpos, drops, locks, sched>>

(***************************************************************************)
(* main: the worker loop (ch3, ch4)                                        *)
(***************************************************************************)
Range(s) == {s[i] : i \in DOMAIN s}

\* every variable a worker step can leave alone, but workers itself
WorkerFrame == <<variant, workload, phase, node_id, stdin, nfed, netpos, drops, locks, sched>>

\* a handler began serving request `m`; `dup`: its value was in the set then
Began(m, dup) == [ev |-> "begin", msg |-> m, dup |-> dup]

\* a handler's add_message(value) for request `m` returned
Inserted(m, dup) == [ev |-> "insert", msg |-> m, dup |-> dup]

\* a handler read the stored topology `topo` to find the neighbors for request `m`
Targeted(m, topo) == [ev |-> "targets", msg |-> m, topo |-> topo]

\* a worker logged envelope `m` as having no handler or no continuation
Dropped(m) == [ev |-> "dropped", msg |-> m]

\* `for message in worker_rx`: take the oldest queued envelope. The workers run
\* the same loop, so of several idle ones the lowest-numbered takes it.
Dequeue(p, w) ==
    /\ phase[p] \in {"running", "closing"}
    /\ workers[p][w].pc = "idle"
    /\ \A w2 \in Workers : w2 < w => workers[p][w2].pc # "idle"
    /\ inbox[p] # <<>>
    /\ workers' = [workers EXCEPT ![p][w] = [IdleWorker EXCEPT !.pc = "route",
                                                               !.msg = Head(inbox[p])]]
    /\ inbox' = [inbox EXCEPT ![p] = Tail(@)]
    /\ UNCHANGED <<out, messages, topology, next_message_id, callbacks, cycles, fired, hist>>
    /\ UNCHANGED WorkerFrame

\* whether the worker loop looks the envelope up in the callback table first
routes_replies(v, body) == v = "ch4" /\ is_reply(body) # <<>>

\* a lookup that leaves the entry in the table
looked_up(map, k) == map

\* a lookup that empties the table
cleared(map, k) == [x \in {} |-> NoCallback]

\* the table after a worker has looked a reply up
resolved(map, k) == remove(map, k)

\* ch4: a reply takes its continuation out of the callback table; a reply that
\* finds none reaches the `_` arm of the match and is logged.
ResolveReply(p, w) ==
    /\ workers[p][w].pc = "route"
    /\ routes_replies(variant, workers[p][w].msg.body)
    /\ LET reply_to == is_reply(workers[p][w].msg.body)[1] IN
       IF reply_to \in DOMAIN callbacks[p]
       THEN /\ workers' = [workers EXCEPT ![p][w].pc = "callback",
                                          ![p][w].cb = callbacks[p][reply_to]]
            /\ callbacks' = [callbacks EXCEPT ![p] = resolved(@, reply_to)]
            /\ UNCHANGED hist
       ELSE /\ workers' = [workers EXCEPT ![p][w] = IdleWorker]
            /\ hist' = [hist EXCEPT ![p] = @ \cup {Dropped(workers[p][w].msg)}]
            /\ UNCHANGED callbacks
    /\ UNCHANGED <<inbox, out, messages, topology, next_message_id, cycles, fired>>
    /\ UNCHANGED WorkerFrame

\* a continuation that takes any reply for an acknowledgment
acknowledge_any(unacked, dest, body) == unacked \ {dest}

\* the unacknowledged set after the continuation of rpc ran on `body`
acknowledge(unacked, dest, body) ==
    IF body.type = "broadcast_ok" THEN unacked \ {dest} ELSE unacked

\* The continuation registered by the retry thread runs on this worker.
RunCallback(p, w) ==
    /\ workers[p][w].pc = "callback"
    /\ LET cb == workers[p][w].cb
           c == cycles[p][cb.cycle]
           left == acknowledge(c.unacked, cb.dest, workers[p][w].msg.body)
           first == cb.dest \in c.unacked /\ cb.dest \notin left
       IN
       /\ cycles' = [cycles EXCEPT ![p][cb.cycle] =
              [c EXCEPT !.unacked = left,
                        !.ackRound[cb.dest] = IF first THEN c.round ELSE @,
                        !.ackPos[cb.dest] = IF first THEN Len(out[p]) ELSE @]]
       /\ fired' = [fired EXCEPT ![p] = Append(@, [key |-> cb.key,
                                                    reply |-> workers[p][w].msg])]
    /\ workers' = [workers EXCEPT ![p][w] = IdleWorker]
    /\ UNCHANGED <<inbox, out, messages, topology, next_message_id, callbacks, hist>>
    /\ UNCHANGED WorkerFrame

\* the worker is at the `match message.body` with a body of this tag
AtMatch(p, w, tag) ==
    /\ workers[p][w].pc = "route"
    /\ ~routes_replies(variant, workers[p][w].msg.body)
    /\ workers[p][w].msg.body.type = tag

\* an EchoOk that correlates with nothing
echo_reply_uncorrelated(body) == EchoOk(body.echo, 0)

\* Handler::handle_echo
echo_reply(body) == EchoOk(body.echo, body.msg_id)

HandleEcho(p, w) ==
    /\ AtMatch(p, w, "echo")
    /\ LET m == workers[p][w].msg IN
       out' = [out EXCEPT ![p] = send(p, m.src, echo_reply(m.body), m, 0)]
    /\ workers' = [workers EXCEPT ![p][w] = IdleWorker]
    /\ UNCHANGED <<inbox, messages, topology, next_message_id, callbacks, cycles, fired, hist>>
    /\ UNCHANGED WorkerFrame

\* Handler::handle_topology: the stored map is replaced, then TopologyOk is sent
HandleTopology(p, w) ==
    /\ AtMatch(p, w, "topology")
    /\ LET m == workers[p][w].msg IN
       /\ topology' = [topology EXCEPT ![p] = <<m.body.topology>>]
       /\ out' = [out EXCEPT ![p] = send(p, m.src, TopologyOk(m.body.msg_id), m, 0)]
    /\ workers' = [workers EXCEPT ![p][w] = IdleWorker]
    /\ UNCHANGED <<inbox, messages, next_message_id, callbacks, cycles, fired, hist>>
    /\ UNCHANGED WorkerFrame

\* a read that returns an empty Vec
read_nothing(set) == {}

\* Node::read_messages: the snapshot taken under the guard of the set
read_messages(set) == set

\* Handler::handle_read, first half
ReadSnapshot(p, w) ==
    /\ AtMatch(p, w, "read")
    /\ workers' = [workers EXCEPT ![p][w].pc = "read_reply",
                                  ![p][w].snap = read_messages(messages[p])]
    /\ UNCHANGED <<inbox, out, messages, topology, next_message_id, callbacks, cycles, fired, hist>>
    /\ UNCHANGED WorkerFrame

\* Handler::handle_read, second half: ReadOk carries the snapshot
ReadReply(p, w) ==
    /\ workers[p][w].pc = "read_reply"
    /\ LET m == workers[p][w].msg IN
       out' = [out EXCEPT ![p] =
                  send(p, m.src, ReadOk(m.body.msg_id, workers[p][w].snap), m, 0)]
    /\ workers' = [workers EXCEPT ![p][w] = IdleWorker]
    /\ UNCHANGED <<inbox, messages, topology, next_message_id, callbacks, cycles, fired, hist>>
    /\ UNCHANGED WorkerFrame

\* Handler::handle_add, first half: Node::add_message
AddInsert(p, w) ==
    /\ AtMatch(p, w, "add")
    /\ messages' = [messages EXCEPT ![p] = add_message(@, workers[p][w].msg.body.element)]
    /\ hist' = [hist EXCEPT ![p] = @ \cup
           {Inserted(workers[p][w].msg, workers[p][w].msg.body.element \in messages[p])}]
    /\ workers' = [workers EXCEPT ![p][w].pc = "add_reply"]
    /\ UNCHANGED <<inbox, out, topology, next_message_id, callbacks, cycles, fired>>
    /\ UNCHANGED WorkerFrame

\* Handler::handle_add, second half: AddOk
AddReply(p, w) ==
    /\ workers[p][w].pc = "add_reply"
    /\ LET m == workers[p][w].msg IN
       out' = [out EXCEPT ![p] = send(p, m.src, AddOk(m.body.msg_id), m, 0)]
    /\ workers' = [workers EXCEPT ![p][w] = IdleWorker]
    /\ UNCHANGED <<inbox, messages, topology, next_message_id, callbacks, cycles, fired, hist>>
    /\ UNCHANGED WorkerFrame

\* a match with an arm for Init as well
tags_with_init(v) ==
    IF v = "ch4" THEN {"echo", "topology", "broadcast", "read", "add", "init"}
                 ELSE {"echo", "topology", "broadcast", "read", "init"}

\* the tags the worker's match has an arm for
handled_tags(v) ==
    IF v = "ch4" THEN {"echo", "topology", "broadcast", "read", "add"}
                 ELSE {"echo", "topology", "broadcast", "read"}

\* the `_` arm: "Received message with no known handler"
NoHandler(p, w) ==
    /\ workers[p][w].pc = "route"
    /\ ~routes_replies(variant, workers[p][w].msg.body)
    /\ workers[p][w].msg.body.type \notin handled_tags(variant)
    /\ workers' = [workers EXCEPT ![p][w] = IdleWorker]
    /\ hist' = [hist EXCEPT ![p] = @ \cup {Dropped(workers[p][w].msg)}]
    /\ UNCHANGED <<inbox, out, messages, topology, next_message_id, callbacks, cycles, fired>>
    /\ UNCHANGED WorkerFrame

(***************************************************************************)
(* ch4: Handler::handle_broadcast                                          *)
(***************************************************************************)
\* a node that gossips to nobody
no_neighbors(topo, self, src) == <<>>

\* a neighbor list that keeps the sender
neighbors_with_sender(topo, self, src) ==
    IF topo = <<>> THEN <<>>
    ELSE IF self \in DOMAIN topo[1] THEN topo[1][self] ELSE <<>>

\* the neighbors a new value is gossiped to: the node's own entry of the stored
\* topology (none without a stored topology or without an entry), minus the sender
neighbors_of(topo, self, src) ==
    LET Keep(n) == n # src
        own == IF topo = <<>> THEN <<>>
               ELSE IF self \in DOMAIN topo[1] THEN topo[1][self] ELSE <<>>
    IN SelectSeq(own, Keep)

\* a retry thread at its first loop test
NewCycle(value, targets, cause) ==
    [value |-> value, cause |-> cause, unacked |-> targets, pc |-> "check",
     todo |-> {}, dest |-> "", id |-> 0, round |-> 0,
     ackRound |-> [d \in targets |-> 0], ackPos |-> [d \in targets |-> 0]]

\* "Acknowledge Broadcast": BroadcastOk goes out before anything else is looked at
BcastAck(p, w) ==
    /\ variant = "ch4"
    /\ AtMatch(p, w, "broadcast")
    /\ LET m == workers[p][w].msg IN
       /\ out' = [out EXCEPT ![p] = send(p, m.src, BroadcastOk(m.body.msg_id), m, 0)]
       /\ hist' = [hist EXCEPT ![p] = @ \cup {Began(m, m.body.message \in messages[p])}]
    /\ workers' = [workers EXCEPT ![p][w].pc = "b_contain"]
    /\ UNCHANGED <<inbox, messages, topology, next_message_id, callbacks, cycles, fired>>
    /\ UNCHANGED WorkerFrame

\* node.messages_contain: a known value ends the handler
BcastContain(p, w) ==
    /\ workers[p][w].pc = "b_contain"
    /\ IF messages_contain(messages[p], workers[p][w].msg.body.message)
       THEN workers' = [workers EXCEPT ![p][w] = IdleWorker]
       ELSE workers' = [workers EXCEPT ![p][w].pc = "b_add"]
    /\ UNCHANGED <<inbox, out, messages, topology, next_message_id, callbacks, cycles, fired, hist>>
    /\ UNCHANGED WorkerFrame

\* node.add_message, a second acquisition of the guard of the set
BcastAdd(p, w) ==
    /\ workers[p][w].pc = "b_add"
    /\ messages' = [messages EXCEPT ![p] = add_message(@, workers[p][w].msg.body.message)]
    /\ hist' = [hist EXCEPT ![p] = @ \cup
           {Inserted(workers[p][w].msg, workers[p][w].msg.body.message \in messages[p])}]
    /\ workers' = [workers EXCEPT ![p][w].pc = "b_topo"]
    /\ UNCHANGED <<inbox, out, topology, next_message_id, callbacks, cycles, fired>>
    /\ UNCHANGED WorkerFrame

\* the neighbors are read from the topology and the retry thread is spawned
BcastFanout(p, w) ==
    /\ workers[p][w].pc = "b_topo"
    /\ LET m == workers[p][w].msg
           neighbors == neighbors_of(topology[p], node_id[p][1], m.src)
       IN
       IF neighbors = <<>>
       THEN UNCHANGED cycles
       ELSE cycles' = [cycles EXCEPT ![p] =
                          Append(@, NewCycle(m.body.message, Range(neighbors), m))]
    /\ hist' = [hist EXCEPT ![p] = @ \cup {Targeted(workers[p][w].msg, topology[p])}]
    /\ workers' = [workers EXCEPT ![p][w] = IdleWorker]
    /\ UNCHANGED <<inbox, out, messages, topology, next_message_id, callbacks, fired>>
    /\ UNCHANGED WorkerFrame

(***************************************************************************)
(* ch4: the retry thread of one new value                                  *)
(***************************************************************************)
RetryFrame == <<variant, workload, phase, node_id, stdin, nfed, inbox, messages, topology,
                workers, fired, hist, netpos, drops, locks, sched>>

\* a loop that never looks at the set
loop_forever(cycle) == "snapshot"

\* a thread that gives up after its first round
one_shot(cycle) == IF cycle.unacked = {} \/ cycle.round >= 1 THEN "done" ELSE "snapshot"

\* `while !unacked.is_empty()`, reached at the start and after each sleep
loop_test(cycle) == IF cycle.unacked = {} THEN "done" ELSE "snapshot"

RetryCheck(p, c) ==
    /\ c \in DOMAIN cycles[p]
    /\ cycles[p][c].pc = "check"
    /\ cycles[p][c].unacked = {} \/ cycles[p][c].round < MaxRounds
    /\ cycles' = [cycles EXCEPT ![p][c].pc = loop_test(cycles[p][c])]
    /\ UNCHANGED <<out, next_message_id, callbacks>>
    /\ UNCHANGED RetryFrame

\* a round that sends to every neighbor the thread was spawned with
all_neighbors(cycle) == DOMAIN cycle.ackPos

\* the neighbors one round sends to: those unacknowledged when the round starts
currently_unacked(cycle) == cycle.unacked

\* a round that is over after its first step
round_over(todo) == "check"

\* after a send: the next neighbor of the round, or the sleep and the loop test
after_send(todo) == IF todo = {} THEN "check" ELSE "next"

RetrySnapshot(p, c) ==
    /\ c \in DOMAIN cycles[p]
    /\ cycles[p][c].pc = "snapshot"
    /\ LET snap == currently_unacked(cycles[p][c]) IN
       cycles' = [cycles EXCEPT ![p][c].todo = snap,
                                ![p][c].round = @ + 1,
                                ![p][c].pc = after_send(snap)]
    /\ UNCHANGED <<out, next_message_id, callbacks>>
    /\ UNCHANGED RetryFrame

\* node_clone.get_next_msg_id() for the next neighbor of the round (the order of
\* a HashSet's elements is arbitrary)
RetryNextId(p, c) ==
    /\ c \in DOMAIN cycles[p]
    /\ cycles[p][c].pc = "next"
    /\ \E d \in cycles[p][c].todo :
          cycles' = [cycles EXCEPT ![p][c].dest = d,
                                   ![p][c].todo = @ \ {d},
                                   ![p][c].id = get_next_msg_id(p),
                                   ![p][c].pc = "rpc"]
    /\ next_message_id' = [next_message_id EXCEPT ![p] = @ + 1]
    /\ UNCHANGED <<out, callbacks>>
    /\ UNCHANGED RetryFrame

\* Node::rpc: the continuation is registered, then the request is sent, both
\* under the guard of the callback table
RetryRpc(p, c) ==
    /\ c \in DOMAIN cycles[p]
    /\ cycles[p][c].pc = "rpc"
    /\ LET cy == cycles[p][c] IN
       /\ callbacks' = [callbacks EXCEPT ![p] =
              insert(@, cy.id, [cycle |-> c, dest |-> cy.dest, key |-> cy.id])]
       /\ out' = [out EXCEPT ![p] =
              send(p, cy.dest, Broadcast(cy.id, cy.value), cy.cause, cy.round)]
       /\ cycles' = [cycles EXCEPT ![p][c].pc = after_send(cy.todo)]
    /\ UNCHANGED next_message_id
    /\ UNCHANGED RetryFrame

(***************************************************************************)
(* ch3: Node::handle_broadcast                                             *)
(***************************************************************************)
\* self.messages_contain comes first; BroadcastOk is the handler's last statement
Ch3Contain(p, w) ==
    /\ variant = "ch3"
    /\ AtMatch(p, w, "broadcast")
    /\ LET v == workers[p][w].msg.body.message IN
       /\ workers' = [workers EXCEPT
              ![p][w].pc = IF messages_contain(messages[p], v) THEN "c3_ack" ELSE "c3_add"]
       /\ hist' = [hist EXCEPT ![p] = @ \cup {Began(workers[p][w].msg, v \in messages[p])}]
    /\ UNCHANGED <<inbox, out, messages, topology, next_message_id, callbacks, cycles, fired>>
    /\ UNCHANGED WorkerFrame

Ch3Add(p, w) ==
    /\ workers[p][w].pc = "c3_add"
    /\ messages' = [messages EXCEPT ![p] = add_message(@, workers[p][w].msg.body.message)]
    /\ hist' = [hist EXCEPT ![p] = @ \cup
           {Inserted(workers[p][w].msg, workers[p][w].msg.body.message \in messages[p])}]
    /\ workers' = [workers EXCEPT ![p][w].pc = "c3_topo"]
    /\ UNCHANGED <<inbox, out, topology, next_message_id, callbacks, cycles, fired>>
    /\ UNCHANGED WorkerFrame

\* the guard of the topology is taken and the neighbor list copied
Ch3Topology(p, w) ==
    /\ workers[p][w].pc = "c3_topo"
    /\ LET neighbors == neighbors_of(topology[p], node_id[p][1], workers[p][w].msg.src) IN
       workers' = [workers EXCEPT ![p][w].todo = neighbors,
                                  ![p][w].pc = IF neighbors = <<>> THEN "c3_ack"
                                               ELSE "c3_fwd"]
    /\ hist' = [hist EXCEPT ![p] = @ \cup {Targeted(workers[p][w].msg, topology[p])}]
    /\ UNCHANGED <<inbox, out, messages, topology, next_message_id, callbacks, cycles, fired>>
    /\ UNCHANGED WorkerFrame

\* one iteration of `for tgt_node_id in neighbors`: a fresh id, one send
Ch3Forward(p, w) ==
    /\ workers[p][w].pc = "c3_fwd"
    /\ LET m == workers[p][w].msg
           rest == Tail(workers[p][w].todo)
       IN
       /\ out' = [out EXCEPT ![p] =
              send(p, Head(workers[p][w].todo),
                   Broadcast(get_next_msg_id(p), m.body.message), m, 0)]
       /\ workers' = [workers EXCEPT ![p][w].todo = rest,
                                     ![p][w].pc = IF rest = <<>> THEN "c3_ack" ELSE "c3_fwd"]
    /\ next_message_id' = [next_message_id EXCEPT ![p] = @ + 1]
    /\ UNCHANGED <<inbox, messages, topology, callbacks, cycles, fired, hist>>
    /\ UNCHANGED WorkerFrame

\* "Acknowledge Broadcast"
Ch3Ack(p, w) ==
    /\ workers[p][w].pc = "c3_ack"
    /\ LET m == workers[p][w].msg IN
       out' = [out EXCEPT ![p] = send(p, m.src, BroadcastOk(m.body.msg_id), m, 0)]
    /\ workers' = [workers EXCEPT ![p][w] = IdleWorker]
    /\ UNCHANGED <<inbox, messages, topology, next_message_id, callbacks, cycles, fired, hist>>
    /\ UNCHANGED WorkerFrame

(***************************************************************************)
(* The environment of one process: the harness writing lines to its stdin  *)
(***************************************************************************)
EnvFrame == <<variant, workload, phase, node_id, inbox, out, messages, topology, next_message_id,
              callbacks, workers, cycles, fired, hist, netpos, drops, locks, sched>>

\* The harness writes one line of kind `kind`, as long as its workload has some.
\* It writes when the pipe is empty: a line written earlier would only wait there.
Feed(p, kind, line) ==
    /\ phase[p] # "off"
    /\ stdin[p] = <<>>
    /\ nfed[p][kind] < workload[kind]
    /\ stdin' = [stdin EXCEPT ![p] = Append(@, line)]
    /\ nfed' = [nfed EXCEPT ![p][kind] = @ + 1]
    /\ UNCHANGED EnvFrame

\* the harness's requests carry the number of their line as msg_id
LineId(p) == nfed[p].request + nfed[p].topology + nfed[p].broadcast + nfed[p].reply + 2

\* the Init line every run of the harness starts with
InitLine(p) == Message("c1", p, Init_(1, p))

EnvTopology(p) ==
    Feed(p, "topology", Message("c1", p, Topology(LineId(p), workload.map)))

\* the maps a harness may send: two neighbors, one neighbor, no entry for n1
Maps == {StarTopology, PairTopology, [n2 |-> <<"n1">>]}

\* the harness sends a Topology line with any of the maps
EnvRetopology(p) ==
    \E map \in Maps : Feed(p, "topology", Message("c1", p, Topology(LineId(p), map)))

\* a client's broadcast, or a peer's gossip of the same value
EnvBroadcast(p) ==
    \E src \in {"c1", "n2"}, v \in Values :
       Feed(p, "broadcast", Message(src, p, Broadcast(LineId(p), v)))

\* a peer answers a Broadcast this process wrote (any number of times, in any order)
EnvAck(p) ==
    \E i \in DOMAIN out[p] :
       /\ out[p][i].env.body.type = "broadcast"
       /\ Feed(p, "reply",
               Message(out[p][i].env.dest, p, BroadcastOk(out[p][i].env.body.msg_id)))

\* a peer answers a Broadcast this process wrote with a reply of another variant
EnvMisreply(p) ==
    \E i \in DOMAIN out[p] :
       /\ out[p][i].env.body.type = "broadcast"
       /\ \E body \in {TopologyOk(out[p][i].env.body.msg_id),
                        EchoOk("a", out[p][i].env.body.msg_id)} :
             Feed(p, "reply", Message(out[p][i].env.dest, p, body))

EnvEcho(p) ==
    \E e \in EchoTexts : Feed(p, "request", Message("c1", p, Echo(LineId(p), e)))

EnvAdd(p) ==
    \E x \in Elements : Feed(p, "request", Message("c1", p, Add(LineId(p), x)))

EnvRead(p) == Feed(p, "request", Message("c1", p, Read(LineId(p))))

\* a reply to a request the process never made
EnvStray(p) ==
    Feed(p, "request",
         Message("c1", p, IF variant = "ch2" THEN EchoOk2(LineId(p), "a", 0)
                                             ELSE EchoOk("a", 0)))

\* a second Init, after the handshake, naming another node id
EnvReinit(p) == Feed(p, "request", Message("c1", p, Init_(LineId(p), "n2")))

\* a line whose bytes are no UTF-8 text
EnvUnreadable(p) == \E l \in {UnreadableLine} : Feed(p, "request", l)

\* the harness closes the pipe
EnvEof(p) == \E l \in {EndOfStream} : Feed(p, "request", l)

\* a line that does not decode: no JSON, or an unknown tag
EnvGarbage(p) ==
    \E l \in {MalformedLine, Message("c1", p, UnknownTag(LineId(p)))} :
       Feed(p, "request", l)

(***************************************************************************)
(* Spec: one broadcast node (ch3 or ch4) and its harness                   *)
(***************************************************************************)
Init ==
    \E v \in {"ch3", "ch4"}, load \in {WideLoad, RacingLoad} :
       Boot({"n1"}, v, load, [n1 |-> InitLine("n1"), n2 |-> MalformedLine])

WorkerStep(p, w) ==
    \/ Dequeue(p, w)
    \/ ResolveReply(p, w)
    \/ RunCallback(p, w)
    \/ HandleTopology(p, w)
    \/ BcastAck(p, w)
    \/ BcastContain(p, w)
    \/ BcastAdd(p, w)
    \/ BcastFanout(p, w)
    \/ Ch3Contain(p, w)
    \/ Ch3Add(p, w)
    \/ Ch3Topology(p, w)
    \/ Ch3Forward(p, w)
    \/ Ch3Ack(p, w)
    \/ NoHandler(p, w)

\* at most one retry thread is spawned per Broadcast request
CycleIds == 1..MaxBroadcasts

RetryStep(p, c) ==
    \/ RetryCheck(p, c)
    \/ RetrySnapshot(p, c)
    \/ RetryNextId(p, c)
    \/ RetryRpc(p, c)

Next ==
    \E p \in Procs :
       \/ Handshake(p)
       \/ Reader(p)
       \/ \E w \in Workers : WorkerStep(p, w)
       \/ \E c \in CycleIds : RetryStep(p, c)
       \/ EnvTopology(p)
       \/ EnvBroadcast(p)
       \/ EnvAck(p)

Spec == Init /\ [][Next]_vars

(***************************************************************************)
(* SpecNode: the handshake, echo, add and read of one node (any variant)   *)
(***************************************************************************)
\* what the harness, or a misbehaving peer, may write as the very first line
FirstLines(p) ==
    {InitLine(p), Message("c1", p, Echo(1, "a")), Message("c1", p, Read(1)),
     MalformedLine, Message("c1", p, UnknownTag(1))}

InitNode ==
    \E v \in {"ch2", "ch3", "ch4"}, l \in FirstLines("n1") :
       Boot({"n1"}, v, RequestLoad, [n1 |-> l, n2 |-> MalformedLine])

NodeWorkerStep(p, w) ==
    \/ Dequeue(p, w)
    \/ ResolveReply(p, w)
    \/ HandleEcho(p, w)
    \/ ReadSnapshot(p, w)
    \/ ReadReply(p, w)
    \/ AddInsert(p, w)
    \/ AddReply(p, w)
    \/ NoHandler(p, w)

NextNode ==
    \E p \in Procs :
       \/ Handshake(p)
       \/ Reader(p)
       \/ Ch2Main(p)
       \/ \E w \in Workers : NodeWorkerStep(p, w)
       \/ EnvEcho(p)
       \/ EnvAdd(p)
       \/ EnvRead(p)
       \/ EnvStray(p)
       \/ EnvGarbage(p)

SpecNode == InitNode /\ [][NextNode]_vars

(***************************************************************************)
(* Reading the history                                                     *)
(***************************************************************************)
\* a worker still holds request m
Serving(p, m) == \E w \in Workers : workers[p][w].msg = m

\* the lines written for request m whose body has tag `tag`
LinesFor(p, m, tag) ==
    {i \in DOMAIN out[p] : out[p][i].cause = m /\ out[p][i].env.body.type = tag}

\* the Broadcast requests whose handler has begun
BroadcastsBegun(p) == {h \in hist[p] : h.ev = "begin"}

\* line i is a BroadcastOk answering request m
AnswersBroadcast(p, i, m) ==
    /\ out[p][i].env.dest = m.src
    /\ out[p][i].env.body = BroadcastOk(m.body.msg_id)

\* the Broadcasts of value v written to d after line `pos`
LaterBroadcasts(p, v, d, pos) ==
    {i \in DOMAIN out[p] : /\ i > pos
                           /\ out[p][i].env.dest = d
                           /\ out[p][i].env.body.type = "broadcast"
                           /\ out[p][i].env.body.message = v}

\* the rounds a retry thread has finished sending
RoundsDone(cycle) == IF cycle.pc \in {"next", "rpc"} THEN cycle.round - 1 ELSE cycle.round

(***************************************************************************)
(* C1. Dedup termination: a Broadcast request whose value is in the        *)
(* MessageSet when its handler begins gets exactly one BroadcastOk (to its *)
(* src, in_reply_to its msg_id), causes no Broadcast to any neighbor and   *)
(* no retry thread, and no insertion: the MessageSet is unchanged.         *)
(***************************************************************************)
C1_DedupTermination ==
    \A p \in Procs : \A h \in BroadcastsBegun(p) :
       h.dup =>
          /\ LinesFor(p, h.msg, "broadcast") = {}
          /\ \A c \in DOMAIN cycles[p] : cycles[p][c].cause # h.msg
          /\ \A e \in hist[p] : (e.ev = "insert" /\ e.msg = h.msg) => e.dup
          /\ \A w \in Workers :
                workers[p][w].msg = h.msg =>
                   workers[p][w].pc \in {"b_contain", "c3_ack"}
          /\ \A i \in LinesFor(p, h.msg, "broadcast_ok") : AnswersBroadcast(p, i, h.msg)
          /\ Cardinality(LinesFor(p, h.msg, "broadcast_ok")) <= 1
          /\ ~Serving(p, h.msg) => Cardinality(LinesFor(p, h.msg, "broadcast_ok")) = 1

\* a duplicate has been handled to the end by the retrying variant
C1_Witness ==
    /\ variant = "ch4"
    /\ \E h \in BroadcastsBegun("n1") :
          /\ h.dup
          /\ ~Serving("n1", h.msg)
          /\ LinesFor("n1", h.msg, "broadcast_ok") # {}
          /\ cycles["n1"] # <<>>

(***************************************************************************)
(* C2. RPC correlation: a continuation registered under MessageId m is     *)
(* invoked at most once in the run, and only by a worker that is           *)
(* processing a reply whose in_reply_to is m, also when duplicate replies  *)
(* for m are processed by several workers at once.                         *)
(***************************************************************************)
C2_RpcCorrelation ==
    \A p \in Procs :
       /\ \A i, j \in DOMAIN fired[p] : fired[p][i].key = fired[p][j].key => i = j
       /\ \A i \in DOMAIN fired[p] : is_reply(fired[p][i].reply.body) = <<fired[p][i].key>>
       /\ \A w \in Workers :
             workers[p][w].pc = "callback" =>
                /\ is_reply(workers[p][w].msg.body) = <<workers[p][w].cb.key>>
                /\ \A i \in DOMAIN fired[p] : fired[p][i].key # workers[p][w].cb.key
                /\ \A w2 \in Workers :
                      (w2 # w /\ workers[p][w2].pc = "callback") =>
                         workers[p][w2].cb.key # workers[p][w].cb.key

\* a continuation has run for m and a duplicate reply for m is in another worker's hands
C2_Witness ==
    \E w1, w2 \in Workers :
       /\ w1 # w2
       /\ workers["n1"][w1].pc = "callback"
       /\ workers["n1"][w2].pc = "route"
       /\ is_reply(workers["n1"][w2].msg.body) = <<workers["n1"][w1].cb.key>>

(***************************************************************************)
(* C3. Every Broadcast request handled is answered with exactly one        *)
(* BroadcastOk (to its src, in_reply_to its msg_id), new value or          *)
(* duplicate, and that BroadcastOk is written before any Broadcast the     *)
(* node forwards because of the request.                                   *)
(***************************************************************************)
C3_AckBeforeForward ==
    \A p \in Procs : \A h \in BroadcastsBegun(p) :
       /\ \A i \in LinesFor(p, h.msg, "broadcast_ok") : AnswersBroadcast(p, i, h.msg)
       /\ Cardinality(LinesFor(p, h.msg, "broadcast_ok")) <= 1
       /\ ~Serving(p, h.msg) => Cardinality(LinesFor(p, h.msg, "broadcast_ok")) = 1
       /\ \A f \in LinesFor(p, h.msg, "broadcast") :
             \E a \in LinesFor(p, h.msg, "broadcast_ok") : a < f

(***************************************************************************)
(* C4. As stated: once B has been removed from the unacknowledged set of   *)
(* value v, the node writes no further Broadcast of v to B, while every    *)
(* neighbor still unacknowledged got a Broadcast of v in each round.       *)
(***************************************************************************)
C4_NoFurtherBroadcast ==
    \A p \in Procs : \A c \in DOMAIN cycles[p] :
       LET cy == cycles[p][c] IN
       /\ \A d \in DOMAIN cy.ackPos :
             cy.ackPos[d] > 0 => LaterBroadcasts(p, cy.value, d, cy.ackPos[d]) = {}
       /\ \A d \in cy.unacked : \A r \in 1..RoundsDone(cy) :
             \E i \in LinesFor(p, cy.cause, "broadcast") :
                out[p][i].env.dest = d /\ out[p][i].round = r

(***************************************************************************)
(* C4, amended. Once B has been removed from the unacknowledged set of a   *)
(* retry thread, that thread writes at most one further Broadcast of v to  *)
(* B, in the round whose snapshot it had already taken, and none in a      *)
(* later round; every neighbor still unacknowledged got a Broadcast of v   *)
(* in each round the thread has finished.                                  *)
(***************************************************************************)
C4_AtMostOneFurther ==
    \A p \in Procs : \A c \in DOMAIN cycles[p] :
       LET cy == cycles[p][c]
           After(d) == {i \in LaterBroadcasts(p, cy.value, d, cy.ackPos[d]) :
                           out[p][i].cause = cy.cause}
       IN
       /\ \A d \in DOMAIN cy.ackPos :
             cy.ackPos[d] > 0 =>
                /\ d \notin cy.unacked
                /\ Cardinality(After(d)) <= 1
                /\ \A i \in After(d) : out[p][i].round = cy.ackRound[d]
       /\ \A d \in cy.unacked : \A r \in 1..RoundsDone(cy) :
             \E i \in LinesFor(p, cy.cause, "broadcast") :
                out[p][i].env.dest = d /\ out[p][i].round = r

\* B acknowledged in round 1 and got nothing in round 2, which C got in full
C4_Witness ==
    \E c \in DOMAIN cycles["n1"] :
       LET cy == cycles["n1"][c] IN
       /\ cy.pc = "check"
       /\ cy.round = 2
       /\ cy.unacked # {}
       /\ \E d \in DOMAIN cy.ackPos :
             /\ cy.ackRound[d] = 1
             /\ \A i \in LinesFor("n1", cy.cause, "broadcast") :
                   out["n1"][i].env.dest = d => out["n1"][i].round = 1

(***************************************************************************)
(* C5. Retry convergence: after the node has observed neighbor n's         *)
(* BroadcastOk for value v, n is sent at most one more Broadcast of v by   *)
(* that node.                                                              *)
(***************************************************************************)
C5_RetryConvergence ==
    \A p \in Procs : \A c \in DOMAIN cycles[p] :
       \A d \in DOMAIN cycles[p][c].ackPos :
          cycles[p][c].ackPos[d] > 0 =>
             Cardinality(LaterBroadcasts(p, cycles[p][c].value, d,
                                         cycles[p][c].ackPos[d])) <= 1

(***************************************************************************)
(* SpecLive: two ch4 nodes, the harness and a network that may lose lines  *)
(***************************************************************************)
LiveLoad == Workload(PairTopology, 1, 1, 0, 0)

InitLive ==
    Boot(Procs, "ch4", LiveLoad, [p \in Procs |-> InitLine(p)])

\* the harness starts its workload when every node has answered its Init
AllUp == \A q \in Procs : phase[q] = "running"

HarnessTopology(p) == AllUp /\ EnvTopology(p)

ClientBroadcast(p) ==
    /\ AllUp
    /\ \E v \in Values : Feed(p, "broadcast", Message("c1", p, Broadcast(LineId(p), v)))

NetFrame == <<variant, workload, phase, node_id, nfed, inbox, out, messages, topology,
              next_message_id, callbacks, workers, cycles, fired, hist, locks, sched>>

\* the network takes the next line a node wrote: to the stdin of the node it
\* is addressed to, or to a client
Transmit(p) ==
    /\ netpos[p] < Len(out[p])
    /\ LET line == out[p][netpos[p] + 1].env IN
       stdin' = IF line.dest \in Procs
                THEN [stdin EXCEPT ![line.dest] = Append(@, line)]
                ELSE stdin
    /\ netpos' = [netpos EXCEPT ![p] = @ + 1]
    /\ UNCHANGED drops
    /\ UNCHANGED NetFrame

\* the network loses the next line a node wrote to another node
Lose(p) ==
    /\ netpos[p] < Len(out[p])
    /\ out[p][netpos[p] + 1].env.dest \in Procs
    /\ Cardinality(drops) < MaxDrops
    /\ drops' = drops \cup {<<p, netpos[p] + 1>>}
    /\ netpos' = [netpos EXCEPT ![p] = @ + 1]
    /\ UNCHANGED stdin
    /\ UNCHANGED NetFrame

LiveWorkerStep(p, w) ==
    \/ Dequeue(p, w)
    \/ ResolveReply(p, w)
    \/ RunCallback(p, w)
    \/ HandleTopology(p, w)
    \/ BcastAck(p, w)
    \/ BcastContain(p, w)
    \/ BcastAdd(p, w)
    \/ BcastFanout(p, w)

NextLive ==
    \/ \E p \in Procs :
          \/ Handshake(p)
          \/ Reader(p)
          \/ \E w \in Workers : LiveWorkerStep(p, w)
          \/ \E c \in CycleIds : RetryStep(p, c)
          \/ Transmit(p)
          \/ Lose(p)
    \/ HarnessTopology("n1")
    \/ ClientBroadcast("n1")

\* every thread of a node keeps running and the network keeps moving lines;
\* losing a line is never forced
FairLive ==
    \A p \in Procs :
       /\ WF_vars(Handshake(p))
       /\ WF_vars(Reader(p))
       /\ \A w \in Workers : WF_vars(LiveWorkerStep(p, w))
       /\ \A c \in CycleIds : WF_vars(RetryStep(p, c))
       /\ WF_vars(Transmit(p))

SpecLive == InitLive /\ [][NextLive]_vars /\ FairLive

(***************************************************************************)
(* C6. At-least-once delivery per edge: when n1 has newly inserted v while *)
(* handling a Broadcast and n2 is a neighbor of n1 other than the sender,  *)
(* then, on a network that loses at most MaxDrops lines (fewer than the    *)
(* rounds a retry thread makes), n2 eventually handles a Broadcast of v    *)
(* from n1 and v is in n2's MessageSet.                                    *)
(***************************************************************************)
NewlyLearned(v) ==
    \E w \in Workers :
       /\ workers["n1"][w].pc = "b_topo"
       /\ workers["n1"][w].msg.body.message = v
       /\ topology["n1"] # <<>>
       /\ "n2" \in Range(neighbors_of(topology["n1"], "n1", workers["n1"][w].msg.src))

HandledFromPeer(v) ==
    /\ v \in messages["n2"]
    /\ \E h \in BroadcastsBegun("n2") : h.msg.src = "n1" /\ h.msg.body.message = v

C6_AtLeastOnce == \A v \in Values : NewlyLearned(v) ~> HandledFromPeer(v)

\* n2 has the value although the network lost a Broadcast of it
C6_Witness ==
    \E v \in Values, i \in DOMAIN out["n1"] :
       /\ <<"n1", i>> \in drops
       /\ out["n1"][i].env.body = Broadcast(out["n1"][i].env.body.msg_id, v)
       /\ HandledFromPeer(v)

(***************************************************************************)
(* Reading the history of the handshake and of the requests                *)
(***************************************************************************)
\* the first line the process read, if it has read one
FirstRead(p) == {h.line : h \in {e \in hist[p] : e.ev = "first"}}

\* a line that is a JSON envelope with an Init body
IsInitLine(line) == "body" \in DOMAIN line /\ line.body.type = "init"

\* lines written to the process so far, and lines it has taken from its stdin
LinesWritten(p) ==
    1 + nfed[p].request + nfed[p].topology + nfed[p].broadcast + nfed[p].reply
LinesRead(p) == LinesWritten(p) - Len(stdin[p])

\* nothing has been handled and nothing is being handled
Untouched(p) ==
    /\ inbox[p] = <<>>
    /\ \A w \in Workers : workers[p][w] = IdleWorker
    /\ messages[p] = {}
    /\ topology[p] = <<>>
    /\ callbacks[p] = <<>>
    /\ cycles[p] = <<>>

\* the requests of tag `tag` that have reached the process and are not handled yet
Pending(p, tag) ==
    {stdin[p][i] : i \in {j \in DOMAIN stdin[p] :
                            /\ message_from_stdin(variant, stdin[p][j]) # <<>>
                            /\ stdin[p][j].body.type = tag}}
    \cup {inbox[p][i] : i \in {j \in DOMAIN inbox[p] : inbox[p][j].body.type = tag}}
    \cup {workers[p][w].msg : w \in {x \in Workers :
                                       /\ workers[p][x].pc = "route"
                                       /\ workers[p][x].msg.body.type = tag}}

(***************************************************************************)
(* C7. Handshake gate, failure side: if the first line does not decode to  *)
(* an Init body the process ends in failure: no Node exists, nothing is    *)
(* written to stdout, and no later line is read or handled.                *)
(***************************************************************************)
C7_HandshakeGate ==
    \A p \in Procs :
       /\ \A l \in FirstRead(p) :
             ~IsInitLine(l) =>
                /\ phase[p] = "failed"
                /\ node_id[p] = <<>>
                /\ out[p] = <<>>
                /\ LinesRead(p) = 1
                /\ Untouched(p)
       /\ phase[p] = "failed" => \E l \in FirstRead(p) : ~IsInitLine(l)

\* the process has failed and a later line waits unread
C7_Witness ==
    /\ phase["n1"] = "failed"
    /\ stdin["n1"] # <<>>

(***************************************************************************)
(* C8. Handshake ordering: when the first line is Init, init_ok            *)
(* (in_reply_to the Init's msg_id, to the Init's src) is the first line    *)
(* written, and before it no other line is read, handled or written.       *)
(***************************************************************************)
C8_HandshakeOrdering ==
    \A p \in Procs :
       /\ \A l \in FirstRead(p) :
             IsInitLine(l) =>
                /\ phase[p] \in {"running", "exited"}
                /\ node_id[p] = <<l.body.node_id>>
                /\ Len(out[p]) >= 1
                /\ out[p][1].env.src = l.body.node_id
                /\ out[p][1].env.dest = l.src
                /\ out[p][1].env.body.type = "init_ok"
                /\ out[p][1].env.body.in_reply_to = l.body.msg_id
                /\ \A i \in DOMAIN out[p] : out[p][i].env.body.type = "init_ok" => i = 1
       /\ out[p] = <<>> => (LinesRead(p) <= 1 /\ Untouched(p))

\* init_ok has been followed by the answer to a request
C8_Witness ==
    /\ phase["n1"] = "running"
    /\ Len(out["n1"]) >= 2
    /\ out["n1"][1].env.body.type = "init_ok"
    /\ out["n1"][2].env.body.type = "echo_ok"

(***************************************************************************)
(* C9. Every Echo request handled after the handshake gets exactly one     *)
(* EchoOk, written to the request's src with the request's echo and        *)
(* in_reply_to its msg_id; handling it leaves MessageSet, Topology and     *)
(* Callback Table unchanged. (A step handles an Echo when the request      *)
(* stops being pending; EchoOk is written by such steps only.)             *)
(***************************************************************************)
C9_Step ==
    \A p \in Procs :
       LET done == Pending(p, "echo") \ Pending(p, "echo")'
           isAnswer(m) ==
              /\ Len(out'[p]) = Len(out[p]) + 1
              /\ SubSeq(out'[p], 1, Len(out[p])) = out[p]
              /\ out'[p][Len(out'[p])].env.src = node_id[p][1]
              /\ out'[p][Len(out'[p])].env.dest = m.src
              /\ out'[p][Len(out'[p])].env.body.type = "echo_ok"
              /\ out'[p][Len(out'[p])].env.body.echo = m.body.echo
              /\ out'[p][Len(out'[p])].env.body.in_reply_to = m.body.msg_id
       IN
       /\ (phase[p] = "running" /\ done # {}) =>
             /\ \E m \in done : done = {m} /\ isAnswer(m)
             /\ UNCHANGED <<messages, topology, callbacks>>
       /\ (/\ Len(out'[p]) > Len(out[p])
           /\ out'[p][Len(out'[p])].env.body.type = "echo_ok") =>
             (phase[p] = "running" /\ done # {})

C9_EchoExactlyOnce == [][C9_Step]_vars

\* an Echo of "b" has been answered
C9_Witness ==
    \E i \in DOMAIN out["n1"] :
       /\ out["n1"][i].env.body.type = "echo_ok"
       /\ out["n1"][i].env.body.echo = "b"
       /\ out["n1"][i].cause.body = Echo(out["n1"][i].env.body.in_reply_to, "b")

(***************************************************************************)
(* C10. Add idempotence: the MessageSet is the set of the elements whose   *)
(* Add has been applied, however often and on however many workers each    *)
(* was applied, and every Add request gets its own AddOk.                  *)
(***************************************************************************)
AddsApplied(p) == {h \in hist[p] : h.ev = "insert" /\ h.msg.body.type = "add"}

C10_AddIdempotent ==
    \A p \in Procs :
       /\ messages[p] = {h.msg.body.element : h \in AddsApplied(p)}
       /\ \A h \in AddsApplied(p) :
             /\ \A i \in LinesFor(p, h.msg, "add_ok") :
                   /\ out[p][i].env.dest = h.msg.src
                   /\ out[p][i].env.body = AddOk(h.msg.body.msg_id)
             /\ Cardinality(LinesFor(p, h.msg, "add_ok")) <= 1
             /\ ~Serving(p, h.msg) => Cardinality(LinesFor(p, h.msg, "add_ok")) = 1

\* two workers have applied Add of the same element at once; both requests,
\* and an earlier one for that element, leave a set of one element
C10_Witness ==
    \E x \in Values :
       /\ messages["n1"] = {x}
       /\ \A w \in Workers :
             /\ workers["n1"][w].pc = "add_reply"
             /\ workers["n1"][w].msg.body.element = x
       /\ Cardinality(AddsApplied("n1")) >= 2

(***************************************************************************)
(* SpecSet: the grow-only set of one ch4 node: add, read and broadcast     *)
(***************************************************************************)
InitSet ==
    Boot({"n1"}, "ch4", SetLoad, [n1 |-> InitLine("n1"), n2 |-> MalformedLine])

SetWorkerStep(p, w) ==
    \/ Dequeue(p, w)
    \/ ReadSnapshot(p, w)
    \/ ReadReply(p, w)
    \/ AddInsert(p, w)
    \/ AddReply(p, w)
    \/ BcastAck(p, w)
    \/ BcastContain(p, w)
    \/ BcastAdd(p, w)
    \/ BcastFanout(p, w)

NextSet ==
    \E p \in Procs :
       \/ Handshake(p)
       \/ Reader(p)
       \/ \E w \in Workers : SetWorkerStep(p, w)
       \/ EnvAdd(p)
       \/ EnvRead(p)
       \/ EnvBroadcast(p)

SpecSet == InitSet /\ [][NextSet]_vars

(***************************************************************************)
(* C11. A ReadOk carries the MessageSet as it was at one instant while its *)
(* Read was handled: every element whose AddOk was written before the     *)
(* Read was received is in it, every element in it was inserted for an Add *)
(* or a Broadcast the node received, and when all of these coincide (read  *)
(* after add(1) and add(2) on a fresh node) it is exactly that set.        *)
(***************************************************************************)
\* the elements whose AddOk is among the first n lines written
AckedWithin(p, n) ==
    {out[p][i].cause.body.element :
        i \in {j \in 1..n : out[p][j].env.body.type = "add_ok"}}

\* the values the node has inserted, for an Add or for a Broadcast
EverInserted(p) ==
    {IF h.msg.body.type = "add" THEN h.msg.body.element ELSE h.msg.body.message :
        h \in {e \in hist[p] : e.ev = "insert"}}

C11_ReadSnapshot ==
    \A p \in Procs : \A h \in {e \in hist[p] : e.ev = "received"} :
       /\ \A i \in LinesFor(p, h.msg, "read_ok") :
             /\ out[p][i].env.dest = h.msg.src
             /\ out[p][i].env.body.in_reply_to = h.msg.body.msg_id
             /\ AckedWithin(p, h.seen) \subseteq out[p][i].env.body.messages
             /\ out[p][i].env.body.messages \subseteq EverInserted(p)
             /\ out[p][i].env.body.messages \subseteq messages[p]
       /\ \A w \in Workers :
             (workers[p][w].pc = "read_reply" /\ workers[p][w].msg = h.msg) =>
                /\ AckedWithin(p, h.seen) \subseteq workers[p][w].snap
                /\ workers[p][w].snap \subseteq messages[p]
       /\ Cardinality(LinesFor(p, h.msg, "read_ok")) <= 1

\* a Read received after the AddOk of 1 and of 2 has been answered with {1, 2}
C11_Witness ==
    \E h \in hist["n1"] :
       /\ h.ev = "received"
       /\ AckedWithin("n1", h.seen) = {1, 2}
       /\ \E i \in LinesFor("n1", h.msg, "read_ok") :
             out["n1"][i].env.body.messages = {1, 2}

(***************************************************************************)
(* C12. The MessageSet is grow-only: in every step the set before is a     *)
(* subset of the set after; a step that changes it is the add_message of   *)
(* the Add handler or of the new-value branch of the Broadcast handler,    *)
(* and adds exactly the value the request carries.                         *)
(***************************************************************************)
C12_Step ==
    \A p \in Procs :
       /\ messages[p] \subseteq messages'[p]
       /\ messages'[p] # messages[p] =>
             \E w \in Workers :
                LET m == workers[p][w].msg IN
                \/ /\ workers[p][w].pc = "route"
                   /\ m.body.type = "add"
                   /\ workers'[p][w].pc = "add_reply"
                   /\ messages'[p] = messages[p] \cup {m.body.element}
                \/ /\ workers[p][w].pc = "b_add"
                   /\ m.body.type = "broadcast"
                   /\ workers'[p][w].pc = "b_topo"
                   /\ messages'[p] = messages[p] \cup {m.body.message}

C12_GrowOnly == [][C12_Step]_vars

\* the set has grown once by an Add and once by a Broadcast
C12_Witness ==
    /\ Cardinality(messages["n1"]) = 2
    /\ \E h \in hist["n1"] : h.ev = "insert" /\ ~h.dup /\ h.msg.body.type = "add"
    /\ \E h \in hist["n1"] : h.ev = "insert" /\ ~h.dup /\ h.msg.body.type = "broadcast"

(***************************************************************************)
(* C13. MessageIds are fresh: no two calls of get_next_msg_id on a node    *)
(* return the same value, whatever the interleaving of workers and retry   *)
(* threads; no two requests the node wrote share a msg_id, every id handed *)
(* out is below the counter, and rpc never registers under a key that is   *)
(* already in the Callback Table.                                          *)
(***************************************************************************)
\* the positions of the requests (Broadcasts) the node has written
RequestsWritten(p) == {i \in DOMAIN out[p] : out[p][i].env.body.type = "broadcast"}

\* the retry threads that hold an id they have not yet registered and sent
HoldingId(p) == {c \in DOMAIN cycles[p] : cycles[p][c].pc = "rpc"}

C13_FreshIds ==
    \A p \in Procs :
       /\ \A i, j \in RequestsWritten(p) :
             out[p][i].env.body.msg_id = out[p][j].env.body.msg_id => i = j
       /\ \A i \in RequestsWritten(p) : out[p][i].env.body.msg_id < next_message_id[p]
       /\ \A k \in DOMAIN callbacks[p] : k < next_message_id[p]
       /\ \A c \in HoldingId(p) :
             /\ cycles[p][c].id < next_message_id[p]
             /\ cycles[p][c].id \notin DOMAIN callbacks[p]
             /\ \A i \in RequestsWritten(p) : out[p][i].env.body.msg_id # cycles[p][c].id
             /\ \A c2 \in HoldingId(p) : cycles[p][c2].id = cycles[p][c].id => c2 = c

\* two retry threads hold an id each at the same time, after earlier sends
C13_Witness ==
    /\ Cardinality(HoldingId("n1")) = 2
    /\ RequestsWritten("n1") # {}
    /\ callbacks["n1"] # <<>>

(***************************************************************************)
(* SpecLocks: the order in which the threads of a ch4 node take and free   *)
(* its guards. A piece of work is the sequence of lock operations its code *)
(* performs; what it computes in between is left out.                      *)
(***************************************************************************)
Acq(g) == <<"acq", g>>
Rel(g) == <<"rel", g>>

\* a guard taken, `body` done under it, the guard dropped at the end of the scope
With(g, body) == <<Acq(g)>> \o body \o <<Rel(g)>>

\* Node::log
log_ops == With("stderr", <<>>)

\* Node::send: the stdout guard is dropped at the end of the match arm, then log
send_ops == With("stdout", <<>>) \o log_ops

\* an rpc whose guard is still held when it returns
rpc_keeping_guard == <<Acq("callbacks")>> \o send_ops

\* Node::rpc: `callbacks` lives to the end of the function, across send
rpc_ops == With("callbacks", send_ops)

\* Node::messages_contain, Node::read_messages
messages_ops == With("messages", <<>>)

\* Node::add_message: the guard is dropped before the log line
add_message_ops == With("messages", <<>>) \o log_ops

\* Handler::handle_topology: topo_guard lives across send
handle_topology_ops == With("topology", send_ops)

\* Handler::handle_broadcast, for a known and for a new value
handle_broadcast_ops(new) ==
    send_ops \o messages_ops
    \o (IF new THEN add_message_ops \o With("topology", <<>>) ELSE <<>>)

\* Handler::handle_read, Handler::handle_add
handle_read_ops == messages_ops \o send_ops
handle_add_ops == add_message_ops \o send_ops

\* the worker's reply routing: callbacks.remove in its own block, then the
\* continuation (which takes the unacknowledged set for a BroadcastOk), or,
\* with no entry, the `_` arm of the match
reply_ops(found, ok) ==
    With("callbacks", <<>>)
    \o (IF found THEN (IF ok THEN With("unacked", <<>>) ELSE <<>>) ELSE log_ops)

\* what one iteration of the worker loop may do (handle_echo is one send)
WorkerWork ==
    {send_ops, handle_topology_ops, handle_read_ops, handle_add_ops, log_ops}
    \cup {handle_broadcast_ops(new) : new \in BOOLEAN}
    \cup {reply_ops(found, ok) : found, ok \in BOOLEAN}

\* A piece of work cut where the thread holds no guard. Between two such
\* sections a thread neither blocks anyone nor keeps anything, so the threads
\* take up sections one by one, in any order.
RECURSIVE Split(_, _, _)
Split(ops, cur, depth) ==
    IF ops = <<>> THEN (IF cur = <<>> THEN {} ELSE {cur})
    ELSE LET d == IF Head(ops)[1] = "acq" THEN depth + 1 ELSE depth - 1
             c == Append(cur, Head(ops))
         IN IF d = 0 THEN {c} \cup Split(Tail(ops), <<>>, 0)
                     ELSE Split(Tail(ops), c, d)

Sections(work) == UNION {Split(ops, <<>>, 0) : ops \in work}

\* the retry thread: the loop test and the snapshot each take the set for one
\* expression; then one rpc per neighbor; or the loop ends and the thread logs
RetryWork ==
    {With("unacked", <<>>) \o With("unacked", <<>>) \o rpc_ops,
     With("unacked", <<>>) \o log_ops}

\* run_event_loop: the registry is taken to extend last_runs, then again to
\* run the tasks; a task that fails is logged under the registry guard
DriverWork ==
    {With("periodic_tasks", <<>>) \o With("periodic_tasks", <<>>),
     With("periodic_tasks", <<>>) \o With("periodic_tasks", log_ops)}

WorkOf(u) ==
    Sections(IF u = "retry" THEN RetryWork
             ELSE IF u = "driver" THEN DriverWork ELSE WorkerWork)

InitLocks ==
    Boot({"n1"}, "ch4", RequestLoad, [n1 |-> InitLine("n1"), n2 |-> MalformedLine])

LockFrame == <<variant, workload, phase, node_id, stdin, nfed, inbox, out, messages,
               topology, next_message_id, callbacks, workers, cycles, fired, hist,
               netpos, drops, sched>>

\* a thread takes up its next section
Begin(u) ==
    /\ locks.prog[u] = <<>>
    /\ \E work \in WorkOf(u) : locks' = [locks EXCEPT !.prog[u] = work]
    /\ UNCHANGED LockFrame

\* Mutex::lock returns: the guard was free
Acquire(u) ==
    /\ locks.prog[u] # <<>>
    /\ Head(locks.prog[u])[1] = "acq"
    /\ locks.held[Head(locks.prog[u])[2]] = "free"
    /\ locks' = [locks EXCEPT !.held[Head(locks.prog[u])[2]] = u,
                              !.prog[u] = Tail(@)]
    /\ UNCHANGED LockFrame

\* the guard goes out of scope
Release(u) ==
    /\ locks.prog[u] # <<>>
    /\ Head(locks.prog[u])[1] = "rel"
    /\ locks' = [locks EXCEPT !.held[Head(locks.prog[u])[2]] = "free",
                              !.prog[u] = Tail(@)]
    /\ UNCHANGED LockFrame

NextLocks == \E u \in Units : Begin(u) \/ Acquire(u) \/ Release(u)

\* a thread that can run does run, and a mutex that is freed again and again is
\* not handed to the others every time
FairLocks ==
    \A u \in Units : WF_vars(Release(u)) /\ SF_vars(Acquire(u))

SpecLocks == InitLocks /\ [][NextLocks]_vars /\ FairLocks

(***************************************************************************)
(* C14. No lock-ordering deadlock: there is never a cycle of threads each  *)
(* waiting for a guard the next one holds (a thread waiting for a guard it *)
(* holds itself included), and a thread that waits for a guard is          *)
(* eventually granted it.                                                  *)
(***************************************************************************)
\* the guard thread u is blocked on, as a set of at most one element
WaitsFor(u) ==
    IF /\ locks.prog[u] # <<>>
       /\ Head(locks.prog[u])[1] = "acq"
       /\ locks.held[Head(locks.prog[u])[2]] # "free"
    THEN {Head(locks.prog[u])[2]} ELSE {}

\* following holders from u for n steps meets blocked threads only
RECURSIVE BlockedChain(_, _)
BlockedChain(u, n) ==
    /\ WaitsFor(u) # {}
    /\ n = 0 \/ \A g \in WaitsFor(u) : BlockedChain(locks.held[g], n - 1)

NoWaitCycle == \A u \in Units : ~BlockedChain(u, Cardinality(Units))

\* thread u is in Mutex::lock. Only its own Acquire ends that, so leaving
\* this condition means the guard (and any taken right after it) was granted.
InLock(u) == locks.prog[u] # <<>> /\ Head(locks.prog[u])[1] = "acq"

Decodable(line) == "body" \in DOMAIN line /\ line.body.type \in Tags(variant)

C15_DecodeErrorDropped ==
    \A p \in Procs :
       /\ phase[p] # "exited"
       /\ \A i \in DOMAIN inbox[p] : Decodable(inbox[p][i])
       /\ \A w \in Workers : workers[p][w].pc # "idle" => Decodable(workers[p][w].msg)
       /\ \A i \in DOMAIN out[p] : Decodable(out[p][i].cause)

(***************************************************************************)
(* C16. Retry termination: a retry thread ends only with an empty          *)
(* unacknowledged set; once the set is empty the thread starts at most the *)
(* round whose loop test it had already passed, and it writes no Broadcast *)
(* in any round after the one in which the last neighbor was acknowledged. *)
(***************************************************************************)
\* the round in which the last acknowledgment of an emptied set was processed
RECURSIVE MaxOf(_)
MaxOf(S) == IF S = {} THEN 0
            ELSE LET x == CHOOSE y \in S : TRUE
                     m == MaxOf(S \ {x})
                 IN IF x > m THEN x ELSE m

EmptiedIn(cycle) == MaxOf({cycle.ackRound[d] : d \in DOMAIN cycle.ackRound})

SentIn(p, c, d, r) ==
    {i \in LinesFor(p, cycles[p][c].cause, "broadcast") :
        /\ out[p][i].env.dest = d
        /\ out[p][i].round = r
        /\ out[p][i].env.body.message = cycles[p][c].value}

\* thread c is in round r and has neighbor d still before it
StillToSend(p, c, d) ==
    \/ cycles[p][c].pc = "next" /\ d \in cycles[p][c].todo
    \/ cycles[p][c].pc = "rpc" /\ (d \in cycles[p][c].todo \/ d = cycles[p][c].dest)

C17_RetryPersistence ==
    \A p \in Procs :
       /\ \A c \in DOMAIN cycles[p] : \A d \in cycles[p][c].unacked :
             LET cy == cycles[p][c] IN
             /\ cy.pc # "done"
             /\ \A r \in 1..cy.round :
                   IF r = cy.round /\ StillToSend(p, c, d)
                   THEN SentIn(p, c, d, r) = {}
                   ELSE Cardinality(SentIn(p, c, d, r)) = 1
       /\ \A j \in RequestsWritten(p) : \A i \in 1..(j - 1) :
             "msg_id" \in DOMAIN out[p][i].env.body =>
                 out[p][i].env.body.msg_id # out[p][j].env.body.msg_id

\* a thread has finished its second round: one neighbor acknowledged in the
\* first round, the other is still unacknowledged and was sent to twice
C17_Witness ==
    \E c \in DOMAIN cycles["n1"] :
       LET cy == cycles["n1"][c] IN
       /\ cy.pc = "check" /\ cy.round = 2
       /\ \E d \in cy.unacked : \E e \in DOMAIN cy.ackRound \ cy.unacked :
             /\ cy.ackRound[e] = 1
             /\ SentIn("n1", c, d, 1) # {} /\ SentIn("n1", c, d, 2) # {}

(***************************************************************************)
(* SpecAck: a ch4 node with two neighbors whose replies to its Broadcasts  *)
(* are BroadcastOk or replies of another variant                           *)
(***************************************************************************)
InitAck == Boot({"n1"}, "ch4", WideLoad, [n1 |-> InitLine("n1"), n2 |-> MalformedLine])

AckWorkerStep(p, w) ==
    \/ Dequeue(p, w)
    \/ ResolveReply(p, w)
    \/ RunCallback(p, w)
    \/ HandleTopology(p, w)
    \/ BcastAck(p, w)
    \/ BcastContain(p, w)
    \/ BcastAdd(p, w)
    \/ BcastFanout(p, w)

NextAck ==
    \E p \in Procs :
       \/ Handshake(p)
       \/ Reader(p)
       \/ \E w \in Workers : AckWorkerStep(p, w)
       \/ \E c \in CycleIds : RetryStep(p, c)
       \/ EnvTopology(p)
       \/ EnvBroadcast(p)
       \/ EnvAck(p)
       \/ EnvMisreply(p)

SpecAck == InitAck /\ [][NextAck]_vars

(***************************************************************************)
(* C18. Acknowledgment: a neighbor n leaves the unacknowledged set of a    *)
(* value v only in a step in which a worker runs the continuation on a     *)
(* BroadcastOk whose in_reply_to is the msg_id of a Broadcast of v that    *)
(* this node wrote to n. A reply of another variant with that in_reply_to  *)
(* takes the entry out of the Callback Table all the same, and the step in *)
(* which its continuation runs leaves every unacknowledged set as it was.  *)
(***************************************************************************)
\* the neighbors thread c has not been acknowledged by, in a state's cycles
UnackedOf(cyc, p, c) == IF c \in DOMAIN cyc[p] THEN cyc[p][c].unacked ELSE {}

\* worker w finishes running a continuation in this step
RunsContinuation(p, w) ==
    workers[p][w].pc = "callback" /\ workers'[p][w].pc = "idle"

C18_Step ==
    \A p \in Procs :
       /\ \A c \in CycleIds : \A d \in UnackedOf(cycles, p, c) \ UnackedOf(cycles', p, c) :
             \E w \in Workers :
                /\ RunsContinuation(p, w)
                /\ workers[p][w].msg.body.type = "broadcast_ok"
                /\ \E i \in UNION {SentIn(p, c, d, r) : r \in 1..cycles[p][c].round} :
                      out[p][i].env.body.msg_id = workers[p][w].msg.body.in_reply_to
       /\ \A w \in Workers :
             /\ (RunsContinuation(p, w) /\ workers[p][w].msg.body.type # "broadcast_ok")
                   => \A c \in CycleIds : UnackedOf(cycles', p, c) = UnackedOf(cycles, p, c)
             /\ (workers[p][w].pc = "route" /\ workers'[p][w].pc # "route"
                 /\ is_reply(workers[p][w].msg.body) # <<>>)
                   => is_reply(workers[p][w].msg.body)[1] \notin DOMAIN callbacks'[p]

C18_Acknowledgment == [][C18_Step]_vars

\* one neighbor was acknowledged by a BroadcastOk; the reply of another variant
\* to the Broadcast sent to the other neighbor has run its continuation, its
\* entry is gone from the table and that neighbor is still unacknowledged
C18_Witness ==
    \E c \in DOMAIN cycles["n1"] :
       LET cy == cycles["n1"][c] IN
       /\ cy.unacked # {} /\ cy.unacked # DOMAIN cy.ackPos
       /\ \E k \in 1..Len(fired["n1"]) : \E i \in DOMAIN out["n1"] :
             /\ fired["n1"][k].reply.body.type # "broadcast_ok"
             /\ out["n1"][i].env.body.type = "broadcast"
             /\ out["n1"][i].env.body.msg_id = fired["n1"][k].key
             /\ out["n1"][i].env.dest \in cy.unacked
             /\ fired["n1"][k].key \notin DOMAIN callbacks["n1"]

(***************************************************************************)
(* SpecTopo: a broadcast node (ch3 or ch4) whose harness sends up to two   *)
(* Topology lines with different maps around one Broadcast                 *)
(***************************************************************************)
InitTopo ==
    \E v \in {"ch3", "ch4"} :
       Boot({"n1"}, v, TopoLoad, [n1 |-> InitLine("n1"), n2 |-> MalformedLine])

NextTopo ==
    \E p \in Procs :
       \/ Handshake(p)
       \/ Reader(p)
       \/ \E w \in Workers : WorkerStep(p, w)
       \/ \E c \in CycleIds : RetryStep(p, c)
       \/ EnvRetopology(p)
       \/ EnvBroadcast(p)
       \/ EnvAck(p)

SpecTopo == InitTopo /\ [][NextTopo]_vars

(***************************************************************************)
(* C19. Fan-out targets: a Broadcast request from s whose value was not in *)
(* the MessageSet has the value inserted, and the nodes that are ever sent *)
(* a Broadcast of the value for that request are the node's own neighbors  *)
(* in the Topology stored when the handler read it, minus s: none of them  *)
(* is missing once the handler (ch3) or the first retry round (ch4) is     *)
(* through, none is sent to without a stored Topology or without an entry  *)
(* for the node, and a Topology stored afterwards changes nothing.         *)
(***************************************************************************)
\* the node's own entry in a stored topology, as a set
OwnNeighbors(topo, self) ==
    IF topo = <<>> THEN {}
    ELSE IF self \in DOMAIN topo[1] THEN Range(topo[1][self]) ELSE {}

\* the nodes that were sent a Broadcast for request m
SentTo(p, m) == {out[p][i].env.dest : i \in LinesFor(p, m, "broadcast")}

\* the fan-out for request m is still under way
FanningOut(p, m) ==
    \/ \E w \in Workers : workers[p][w].msg = m /\ workers[p][w].pc = "c3_fwd"
    \/ \E c \in DOMAIN cycles[p] :
          /\ cycles[p][c].cause = m
          /\ cycles[p][c].round = 0 \/ (cycles[p][c].round = 1 /\ cycles[p][c].pc \in {"next", "rpc"})

TargetsRead(p) == {h \in hist[p] : h.ev = "targets"}

C19_FanoutTargets ==
    \A p \in Procs :
       /\ \A h \in TargetsRead(p) :
             LET expected == OwnNeighbors(h.topo, p) \ {h.msg.src} IN
             /\ h.msg.body.message \in messages[p]
             /\ Inserted(h.msg, FALSE) \in hist[p] \/ Inserted(h.msg, TRUE) \in hist[p]
             /\ SentTo(p, h.msg) \subseteq expected
             /\ ~FanningOut(p, h.msg) => SentTo(p, h.msg) = expected
             /\ \A i \in LinesFor(p, h.msg, "broadcast") :
                   out[p][i].env.body.message = h.msg.body.message
       /\ \A i \in RequestsWritten(p) : \E h \in TargetsRead(p) : h.msg = out[p][i].cause

\* a value gossiped by n2 went to n3 alone under the two-neighbor map, and the
\* topology stored since is another one
C19_Witness ==
    \E h \in TargetsRead("n1") :
       /\ h.topo = <<StarTopology>>
       /\ h.msg.src = "n2"
       /\ ~FanningOut("n1", h.msg)
       /\ SentTo("n1", h.msg) = {"n3"}
       /\ topology["n1"] # h.topo

(***************************************************************************)
(* SpecDrop: a broadcast node (ch3 or ch4) that is also sent envelopes no  *)
(* handler and no continuation waits for                                   *)
(***************************************************************************)
InitDrop ==
    \E v \in {"ch3", "ch4"} :
       Boot({"n1"}, v, DropLoad, [n1 |-> InitLine("n1"), n2 |-> MalformedLine])

NextDrop ==
    \E p \in Procs :
       \/ Handshake(p)
       \/ Reader(p)
       \/ \E w \in Workers : WorkerStep(p, w)
       \/ \E c \in CycleIds : RetryStep(p, c)
       \/ EnvTopology(p)
       \/ EnvBroadcast(p)
       \/ EnvAck(p)
       \/ EnvStray(p)
       \/ EnvReinit(p)

SpecDrop == InitDrop /\ [][NextDrop]_vars

(***************************************************************************)
(* C20. Unhandled envelopes: an envelope that is neither a reply with a    *)
(* registered Callback Table entry nor an Echo, Topology, Broadcast, Read  *)
(* or Add request is dropped. The step in which the worker lets go of it   *)
(* leaves MessageSet, Topology, Callback Table, node id and the lines      *)
(* written unchanged and leaves the worker idle, and a worker holding such *)
(* an envelope can always take that step.                                  *)
(***************************************************************************)
RequestTags == {"echo", "topology", "broadcast", "read", "add"}

\* envelope m, taken from the queue, has no continuation and no handler
Droppable(p, m) ==
    /\ m.body.type \notin RequestTags
    /\ \/ m.body.type \notin ReplyTags
       \/ variant # "ch4"
       \/ m.body.in_reply_to \notin DOMAIN callbacks[p]

Dropping(p, w) == workers[p][w].pc = "route" /\ Droppable(p, workers[p][w].msg)

C20_Step ==
    \A p \in Procs : \A w \in Workers :
       (Dropping(p, w) /\ workers'[p][w] # workers[p][w]) =>
          /\ workers'[p][w] = IdleWorker
          /\ messages' = messages /\ topology' = topology /\ callbacks' = callbacks
          /\ node_id' = node_id /\ out' = out /\ phase' = phase
          /\ cycles' = cycles /\ next_message_id' = next_message_id

C20_Released ==
    \A p \in Procs : \A w \in Workers :
       Dropping(p, w) => ENABLED (NoHandler(p, w) \/ ResolveReply(p, w))

C20_UnhandledDropped == [][C20_Step]_vars /\ []C20_Released

\* a ch4 node has dropped a second Init and a second BroadcastOk for a Broadcast
\* whose continuation had already run
C20_Witness ==
    /\ variant = "ch4"
    /\ \E h \in hist["n1"] : h.ev = "dropped" /\ h.msg.body.type = "init"
    /\ \E h \in hist["n1"] : \E k \in 1..Len(fired["n1"]) :
          /\ h.ev = "dropped"
          /\ h.msg.body.type = "broadcast_ok"
          /\ h.msg.body.in_reply_to = fired["n1"][k].key
    /\ node_id["n1"] = <<"n1">>
    /\ \A w \in Workers : workers["n1"][w].pc = "idle"

(***************************************************************************)
(* C21. Register before send: for every Broadcast the node has written     *)
(* through rpc, the continuation is in the Callback Table under the        *)
(* Broadcast's msg_id unless a reply has already taken it out; so a reply  *)
(* that a worker dropped as unsolicited was never the first reply to one   *)
(* of the node's requests.                                                 *)
(***************************************************************************)
\* a reply has taken the continuation registered under k out of the table
Consumed(p, k) ==
    \/ \E n \in 1..Len(fired[p]) : fired[p][n].key = k
    \/ \E w \in Workers : workers[p][w].pc = "callback" /\ workers[p][w].cb.key = k

\* the replies the workers have dropped
DroppedReplies(p) == {h \in hist[p] : h.ev = "dropped" /\ h.msg.body.type \in ReplyTags}

C21_RegisterBeforeSend ==
    \A p \in Procs :
       /\ \A i \in RequestsWritten(p) :
             LET k == out[p][i].env.body.msg_id IN
             /\ k \in DOMAIN callbacks[p] \/ Consumed(p, k)
             /\ k \in DOMAIN callbacks[p] =>
                   /\ callbacks[p][k].dest = out[p][i].env.dest
                   /\ ~Consumed(p, k)
       /\ \A h \in DroppedReplies(p) : \A i \in RequestsWritten(p) :
             h.msg.body.in_reply_to = out[p][i].env.body.msg_id =>
                Consumed(p, h.msg.body.in_reply_to)

\* the first reply to a Broadcast ran its continuation, a second reply to the
\* same Broadcast was dropped
C21_Witness ==
    \E h \in DroppedReplies("n1") : \E n \in 1..Len(fired["n1"]) :
       /\ fired["n1"][n].key = h.msg.body.in_reply_to
       /\ \E i \in RequestsWritten("n1") :
             out["n1"][i].env.body.msg_id = fired["n1"][n].key

(***************************************************************************)
(* C22. Callback Table entries: an entry leaves the table only in a step   *)
(* in which a worker looks up a reply whose in_reply_to is the entry's     *)
(* key, and an entry that stays is never changed. An entry whose request   *)
(* is never answered therefore stays, also when the retry thread that      *)
(* registered it has ended because a later attempt was acknowledged.       *)
(***************************************************************************)
\* worker w finishes the lookup of a reply to k in this step
LooksUp(p, w, k) ==
    /\ workers[p][w].pc = "route"
    /\ workers'[p][w].pc # "route"
    /\ is_reply(workers[p][w].msg.body) = <<k>>

C22_Step ==
    \A p \in Procs : \A k \in DOMAIN callbacks[p] :
       IF k \in DOMAIN callbacks'[p]
       THEN callbacks'[p][k] = callbacks[p][k]
       ELSE \E w \in Workers : LooksUp(p, w, k)

C22_EntriesPersist == [][C22_Step]_vars

\* a retry thread has ended, and the entry of its unanswered first attempt is
\* still in the table
C22_Witness ==
    \E c \in DOMAIN cycles["n1"] : \E k \in DOMAIN callbacks["n1"] :
       /\ cycles["n1"][c].pc = "done"
       /\ callbacks["n1"][k].cycle = c
       /\ \A w \in Workers : workers["n1"][w].pc = "idle"
       /\ inbox["n1"] = <<>> /\ stdin["n1"] = <<>>

(***************************************************************************)
(* ch4: Node::every and the scheduler driver of Node::run_event_loop       *)
(***************************************************************************)
SchedFrame == <<variant, workload, phase, node_id, stdin, nfed, inbox, out, messages,
                topology, next_message_id, callbacks, workers, cycles, fired, hist,
                netpos, drops, locks>>

\* the intervals a task may be registered with, in clock ticks
Intervals == 0..MaxInterval

\* tasks.push((duration, task))
every(tasks, d) == Append(tasks, d)

\* Some thread of the node calls node.every(d, f). The call takes the guard of
\* the registry: it waits while the driver scans, and it panics on the
\* poisoned guard once the driver has panicked under it.
Every(p) ==
    /\ phase[p] = "running"
    /\ sched[p].pc \in {"sync", "gap", "sleep"}
    /\ Len(sched[p].tasks) < MaxTasks
    /\ \E d \in Intervals : sched' = [sched EXCEPT ![p].tasks = every(@, d)]
    /\ UNCHANGED SchedFrame

\* Instant::now() advances on its own
Tick(p) ==
    /\ phase[p] = "running"
    /\ sched[p].clock < MaxTime
    /\ sched' = [sched EXCEPT ![p].clock = @ + 1]
    /\ UNCHANGED SchedFrame

\* `while last_runs.len() < tasks.len() { last_runs.push(Instant::now()) }`
seen(last_runs, tasks, now) ==
    last_runs \o [j \in 1..(Len(tasks) - Len(last_runs)) |-> now]

\* first block of the loop: under the guard, every task gets a timestamp
DriverSync(p) ==
    /\ sched[p].pc = "sync"
    /\ sched' = [sched EXCEPT ![p].last_runs = seen(@, sched[p].tasks, sched[p].clock),
                              ![p].ran = {},
                              ![p].pc = "gap"]
    /\ UNCHANGED SchedFrame

\* second block: the guard is taken again and the iteration starts
DriverLock(p) ==
    /\ sched[p].pc = "gap"
    /\ sched' = [sched EXCEPT ![p].pc = "scan", ![p].i = 1]
    /\ UNCHANGED SchedFrame

\* a task that runs in every poll cycle
always_due(now, last, d) == TRUE

\* now.duration_since(last_runs[i]) >= *duration
due(now, last, d) == now - last >= d

\* one iteration of `for (i, (duration, task)) in tasks.iter().enumerate()`;
\* last_runs[i] panics when the list has no entry i
DriverCheck(p) ==
    /\ sched[p].pc = "scan"
    /\ sched[p].i <= Len(sched[p].tasks)
    /\ LET sc == sched[p]
           i == sc.i
       IN
       IF i > Len(sc.last_runs)
       THEN sched' = [sched EXCEPT ![p].pc = "panicked"]
       ELSE IF due(sc.clock, sc.last_runs[i], sc.tasks[i])
            THEN sched' = [sched EXCEPT ![p].last_runs[i] = sc.clock,
                                        ![p].ran = @ \cup {i},
                                        ![p].i = i + 1]
            ELSE sched' = [sched EXCEPT ![p].i = i + 1]
    /\ UNCHANGED SchedFrame

\* the iteration is over: the guard is dropped, the thread sleeps 100 ms
DriverSleep(p) ==
    /\ sched[p].pc = "scan"
    /\ sched[p].i > Len(sched[p].tasks)
    /\ sched' = [sched EXCEPT ![p].pc = "sleep"]
    /\ UNCHANGED SchedFrame

\* the sleep is over: next poll cycle
DriverWake(p) ==
    /\ sched[p].pc = "sleep"
    /\ sched' = [sched EXCEPT ![p].pc = "sync"]
    /\ UNCHANGED SchedFrame

(***************************************************************************)
(* SpecSched: a ch4 node whose threads register periodic tasks while the   *)
(* driver runs                                                             *)
(***************************************************************************)
InitSched ==
    Boot({"n1"}, "ch4", RequestLoad, [n1 |-> InitLine("n1"), n2 |-> MalformedLine])

NextSched ==
    \E p \in Procs :
       \/ Handshake(p)
       \/ Every(p)
       \/ Tick(p)
       \/ DriverSync(p)
       \/ DriverLock(p)
       \/ DriverCheck(p)
       \/ DriverSleep(p)
       \/ DriverWake(p)

SpecSched == InitSched /\ [][NextSched]_vars

(***************************************************************************)
(* C23. Periodic firing: registered pairs are never removed or changed. In *)
(* a poll cycle the driver examines the pairs one after the other, each    *)
(* once; a pair it has a timestamp for fires in the step that examines it  *)
(* exactly if at least its interval has passed since that timestamp (its   *)
(* last firing, or the cycle in which the driver first saw it), and its    *)
(* timestamp becomes the time read in that step; otherwise the pair does   *)
(* not fire and its timestamp stays. A cycle that reaches the sleep has    *)
(* examined every pair registered when its iteration began.                *)
(***************************************************************************)
\* pair j is examined in this step
Examined(p, j) ==
    sched[p].pc = "scan" /\ sched[p].i = j /\ sched'[p].i = j + 1

\* pair j fires in this step
Fires(p, j) == j \in sched'[p].ran \ sched[p].ran

C23_Step ==
    \A p \in Procs :
       LET s == sched[p]
           t == sched'[p]
       IN
       /\ Len(t.tasks) >= Len(s.tasks)
       /\ \A j \in 1..Len(s.tasks) : t.tasks[j] = s.tasks[j]
       /\ (s.pc = "scan" /\ t.pc = "scan" /\ t.i # s.i) => t.i = s.i + 1
       /\ \A j \in 1..Len(s.last_runs) :
             /\ Fires(p, j) <=> (Examined(p, j) /\ s.clock - s.last_runs[j] >= s.tasks[j])
             /\ Fires(p, j) => t.last_runs[j] = s.clock
             /\ ~Fires(p, j) => t.last_runs[j] = s.last_runs[j]
       /\ \A j \in 1..MaxTasks : Fires(p, j) => j \in 1..Len(s.last_runs)
       /\ (s.pc = "scan" /\ t.pc = "sleep") =>
             /\ s.i = Len(s.tasks) + 1
             /\ Len(s.last_runs) = Len(s.tasks)

C23_PeriodicFiring == [][C23_Step]_vars

\* a cycle is over in which the first pair fired and the second, examined at
\* the same time, did not
C23_Witness ==
    /\ sched["n1"].pc = "sleep"
    /\ Len(sched["n1"].tasks) = 2
    /\ Len(sched["n1"].last_runs) = 2
    /\ sched["n1"].ran = {1}
    /\ sched["n1"].last_runs[1] = sched["n1"].clock
    /\ sched["n1"].last_runs[2] < sched["n1"].clock

(***************************************************************************)
(* C27. Timestamps for every task: whenever the driver examines task i,    *)
(* last_runs has an entry i, so the driver never panics and keeps polling, *)
(* also when every is called while the driver runs.                        *)
(***************************************************************************)
C27_TimestampForEveryTask ==
    \A p \in Procs :
       /\ sched[p].pc # "panicked"
       /\ (sched[p].pc = "scan" /\ sched[p].i <= Len(sched[p].tasks))
             => sched[p].i <= Len(sched[p].last_runs)

(***************************************************************************)
(* C24. No joint locking: no thread of the node holds two guards at the    *)
(* same time.                                                              *)
(***************************************************************************)
\* the guards thread u holds
HeldBy(u) == {g \in Guards : locks.held[g] = u}

C24_NoJointLocking == \A u \in Units : Cardinality(HeldBy(u)) <= 1

(***************************************************************************)
(* C25. One retry cycle per value: at one node no two retry threads are    *)
(* ever started for the same value, and of the Broadcast requests carrying *)
(* one value at most one finds it new and fans it out.                     *)
(***************************************************************************)
\* the requests whose handler found its value absent and went on to insert it
FoundNew(p, v) ==
    {h \in hist[p] : h.ev = "insert" /\ h.msg.body.message = v}

C25_OneCyclePerValue ==
    \A p \in Procs :
       /\ \A c1, c2 \in DOMAIN cycles[p] :
             cycles[p][c1].value = cycles[p][c2].value => c1 = c2
       /\ variant = "ch4" => \A v \in Values : Cardinality(FoundNew(p, v)) <= 1

(***************************************************************************)
(* C26. Acknowledged values are stored: whenever a BroadcastOk for a       *)
(* request carrying value v has been written, v is in the MessageSet, and  *)
(* a Read taken from stdin after that BroadcastOk is answered with a set   *)
(* that contains v.                                                        *)
(***************************************************************************)
\* the values whose BroadcastOk is among the first n lines written
BroadcastAckedWithin(p, n) ==
    {out[p][i].cause.body.message :
        i \in {j \in 1..n : out[p][j].env.body.type = "broadcast_ok"}}

C26_AckedValueStored ==
    \A p \in Procs :
       /\ BroadcastAckedWithin(p, Len(out[p])) \subseteq messages[p]
       /\ \A h \in {e \in hist[p] : e.ev = "received"} :
             \A i \in LinesFor(p, h.msg, "read_ok") :
                BroadcastAckedWithin(p, h.seen) \subseteq out[p][i].env.body.messages

(***************************************************************************)
(* SpecGossip: two ch4 nodes that are each other's neighbor, each given    *)
(* the topology before any Broadcast, and a network that may lose lines    *)
(***************************************************************************)
InitGossip ==
    Boot(Procs, "ch4", LiveLoad, [p \in Procs |-> InitLine(p)])

\* every node has handled its Topology line
TopologyKnown == \A q \in Procs : topology[q] # <<>>

\* a client broadcasts a value to one node, once all topologies are stored;
\* the run has one client broadcast
GossipBroadcast(p) ==
    /\ TopologyKnown
    /\ \A q \in Procs : nfed[q].broadcast = 0
    /\ \E v \in Values : Feed(p, "broadcast", Message("c1", p, Broadcast(LineId(p), v)))

NextGossip ==
    \E p \in Procs :
       \/ Handshake(p)
       \/ Reader(p)
       \/ \E w \in Workers : LiveWorkerStep(p, w)
       \/ \E c \in CycleIds : RetryStep(p, c)
       \/ Transmit(p)
       \/ Lose(p)
       \/ HarnessTopology(p)
       \/ GossipBroadcast(p)

SpecGossip == InitGossip /\ [][NextGossip]_vars /\ FairLive

(***************************************************************************)
(* C28. Dissemination: with every node's Topology stored before the first  *)
(* Broadcast, threads that keep running and a network that loses at most   *)
(* MaxDrops lines (fewer than the rounds of a retry thread), a value a     *)
(* client broadcasts to one node is eventually in the MessageSet of every  *)
(* node, and every retry thread that was started eventually ends.          *)
(***************************************************************************)
\* a client's Broadcast of v is waiting on some node's stdin
ClientSent(v) ==
    \E p \in Procs : \E i \in DOMAIN stdin[p] :
       /\ stdin[p][i].src \in Clients
       /\ stdin[p][i].body.type = "broadcast"
       /\ stdin[p][i].body.message = v

Everywhere(v) == \A q \in Procs : v \in messages[q]

Started(p, c) == c \in DOMAIN cycles[p]

Ended(p, c) == c \in DOMAIN cycles[p] /\ cycles[p][c].pc = "done"

InitReader ==
    \E v \in {"ch3", "ch4"} :
       Boot({"n1"}, v, RequestLoad, [n1 |-> InitLine("n1"), n2 |-> MalformedLine])

NextReader ==
    \E p \in Procs :
       \/ Handshake(p)
       \/ Reader(p)
       \/ ReaderPanics(p)
       \/ MainJoins(p)
       \/ \E w \in Workers : NodeWorkerStep(p, w)
       \/ EnvEcho(p)
       \/ EnvAdd(p)
       \/ EnvRead(p)
       \/ EnvStray(p)
       \/ EnvGarbage(p)
       \/ EnvUnreadable(p)
       \/ EnvEof(p)

SpecReader == InitReader /\ [][NextReader]_vars

(***************************************************************************)
(* C29. No exit: once the handshake has succeeded, the reader and the      *)
(* workers of a node never end and the process does not terminate,         *)
(* whatever arrives on stdin.                                              *)
(***************************************************************************)
C29_NeverExits ==
    \A p \in Procs : phase[p] \in {"off", "start", "failed", "running"}
====
